---- MODULE Spec2Model ----
(***************************************************************************)
(* Model of the document extraction subsystem (document_parser.py): the   *)
(* dispatcher parse_uploaded_bytes and the three strategies               *)
(* parse_bsi_zuordnung_pdf, parse_excel and parse_csv.                     *)
(*                                                                         *)
(* A Python str is modelled as a sequence of one-character strings, so    *)
(* that the regular expressions and the substring tests of the source are *)
(* computed character by character.  Positions are 1-based; a matcher     *)
(* returns the position following the match, or 0 when there is no match. *)
(***************************************************************************)
EXTENDS Integers, Sequences, FiniteSets, TLC

\* ------------------------------------------------------------------------
\* Characters and the str methods the source uses
\* ------------------------------------------------------------------------

Digit == {"0", "1", "2", "3", "4", "5", "6", "7", "8", "9"}

UpperSeq == <<"A","B","C","D","E","F","G","H","I","J","K","L","M",
              "N","O","P","Q","R","S","T","U","V","W","X","Y","Z">>

LowerSeq == <<"a","b","c","d","e","f","g","h","i","j","k","l","m",
              "n","o","p","q","r","s","t","u","v","w","x","y","z">>

Upper == {UpperSeq[k] : k \in 1..Len(UpperSeq)}

LowerCase == {LowerSeq[k] : k \in 1..Len(LowerSeq)}

\* \s of the re module, restricted to the characters the inputs contain
WhiteSpace == {" ", "\n", "\t"}

\* \w of the re module
WordChar == Digit \cup Upper \cup LowerCase \cup {"_"}

\* None, as a value no str equals (a str holds one-character strings only)
None == <<"None">>

\* the position after the maximal run of characters of C that starts at i
RECURSIVE RunEnd(_, _, _)
RunEnd(s, i, C) ==
    IF i <= Len(s) /\ s[i] \in C THEN RunEnd(s, i + 1, C) ELSE i

\* the position before the maximal run of characters of C that ends at j
RECURSIVE RunStart(_, _, _)
RunStart(s, j, C) ==
    IF j >= 1 /\ s[j] \in C THEN RunStart(s, j - 1, C) ELSE j

\* the literal lit stands in s at position i
HasAt(s, i, lit) ==
    /\ i >= 1
    /\ i + Len(lit) - 1 <= Len(s)
    /\ SubSeq(s, i, i + Len(lit) - 1) = lit

\* Python: lit in s
In(lit, s) == \E i \in 1..(Len(s) - Len(lit) + 1) : HasAt(s, i, lit)

startswith(s, lit) == HasAt(s, 1, lit)

endswith(s, lit) ==
    /\ Len(lit) <= Len(s)
    /\ SubSeq(s, Len(s) - Len(lit) + 1, Len(s)) = lit

lower_char(c) ==
    IF c \in Upper
    THEN LowerSeq[CHOOSE k \in 1..Len(UpperSeq) : UpperSeq[k] = c]
    ELSE c

upper_char(c) ==
    IF c \in LowerCase
    THEN UpperSeq[CHOOSE k \in 1..Len(LowerSeq) : LowerSeq[k] = c]
    ELSE c

lower(s) == [k \in 1..Len(s) |-> lower_char(s[k])]

upper(s) == [k \in 1..Len(s) |-> upper_char(s[k])]

strip(s) == SubSeq(s, RunEnd(s, 1, WhiteSpace), RunStart(s, Len(s), WhiteSpace))

\* the first position >= i of s that holds character c, or 0
RECURSIVE find_char(_, _, _)
find_char(s, i, c) ==
    IF i > Len(s) THEN 0
    ELSE IF s[i] = c THEN i
    ELSE find_char(s, i + 1, c)

\* Python: s.split("\n")
RECURSIVE split_lines(_)
split_lines(s) ==
    LET k == find_char(s, 1, "\n")
    IN  IF k = 0 THEN <<s>>
        ELSE <<SubSeq(s, 1, k - 1)>> \o split_lines(SubSeq(s, k + 1, Len(s)))

\* Python: sep.join(parts)
RECURSIVE join(_, _)
join(sep, parts) ==
    IF Len(parts) = 0 THEN <<>>
    ELSE IF Len(parts) = 1 THEN parts[1]
    ELSE parts[1] \o sep \o join(sep, Tail(parts))

\* \b at position i: exactly one of s[i-1], s[i] is a word character
IsWord(s, k) == k >= 1 /\ k <= Len(s) /\ s[k] \in WordChar

WordBoundary(s, i) == IsWord(s, i - 1) # IsWord(s, i)

\* \d+ from position i: the position after the run, or 0 when it is empty
DigitsEnd(s, i) ==
    LET e == RunEnd(s, i, Digit) IN IF e > i THEN e ELSE 0

\* ------------------------------------------------------------------------
\* Identifier grammar: the compiled patterns of the module
\* ------------------------------------------------------------------------

\* [A-Z]{lo,hi}\.  from position i: the position after the dot, or 0.  The
\* letter run must be followed by the dot, so the whole run is consumed.
LettersDot(s, i, lo, hi) ==
    LET l == RunEnd(s, i, Upper)
    IN  IF l - i >= lo /\ l - i <= hi /\ HasAt(s, l, <<".">>) THEN l + 1 ELSE 0

\* (?:\.\d+)? from position p, greedy: the position after it when the group
\* is present, else p
OptDotDigits(s, p) ==
    IF HasAt(s, p, <<".">>) /\ DigitsEnd(s, p + 1) # 0
    THEN DigitsEnd(s, p + 1) ELSE p

\* \.A\d+\b from position p
ReqTail(s, p) ==
    LET e == IF HasAt(s, p, <<".", "A">>) THEN DigitsEnd(s, p + 2) ELSE 0
    IN  IF e # 0 /\ WordBoundary(s, e) THEN e ELSE 0

\* _BSI_REQ_PATTERN = \b([A-Z]{2,5}\.\d+(?:\.\d+)?\.A\d+)\b
BSI_REQ_PATTERN(s, i) ==
    LET l  == IF WordBoundary(s, i) THEN LettersDot(s, i, 2, 5) ELSE 0
        d1 == IF l # 0 THEN DigitsEnd(s, l) ELSE 0
        d2 == IF d1 # 0 THEN OptDotDigits(s, d1) ELSE 0
    IN  IF d1 = 0 THEN 0
        ELSE IF ReqTail(s, d2) # 0 THEN ReqTail(s, d2)
        ELSE ReqTail(s, d1)

\* _BSI_MODULE_PATTERN = \b([A-Z]{2,5}\.\d+(?:\.\d+)?)\b
BSI_MODULE_PATTERN(s, i) ==
    LET l  == IF WordBoundary(s, i) THEN LettersDot(s, i, 2, 5) ELSE 0
        d1 == IF l # 0 THEN DigitsEnd(s, l) ELSE 0
        d2 == IF d1 # 0 THEN OptDotDigits(s, d1) ELSE 0
    IN  IF d1 = 0 THEN 0
        ELSE IF WordBoundary(s, d2) THEN d2
        ELSE IF WordBoundary(s, d1) THEN d1
        ELSE 0

S_BSI_Standard == <<"B","S","I","-","S","t","a","n","d","a","r","d">>

S_200 == <<"2","0","0","-">>

\* _BSI_STD_PATTERN = (BSI-Standard\s+200-[1-4])
BSI_STD_PATTERN(s, i) ==
    LET w == IF HasAt(s, i, S_BSI_Standard)
             THEN RunEnd(s, i + Len(S_BSI_Standard), WhiteSpace) ELSE 0
    IN  IF /\ w > i + Len(S_BSI_Standard)
           /\ HasAt(s, w, S_200)
           /\ w + 4 <= Len(s)
           /\ s[w + 4] \in {"1", "2", "3", "4"}
        THEN w + 5 ELSE 0

\* A\.\d+\.\d+ from position i (the common part of the Annex patterns)
AnnexEnd(s, i) ==
    LET d1 == IF HasAt(s, i, <<"A", ".">>) THEN DigitsEnd(s, i + 2) ELSE 0
    IN  IF d1 # 0 /\ HasAt(s, d1, <<".">>) THEN DigitsEnd(s, d1 + 1) ELSE 0

\* _ISO_ANNEX_PATTERN = (A\.\d+\.\d+)
ISO_ANNEX_PATTERN(s, i) == AnnexEnd(s, i)

\* _ISO_CLAUSE_PATTERN = (\d+\.\d+)
ISO_CLAUSE_PATTERN(s, i) ==
    LET d1 == DigitsEnd(s, i)
    IN  IF d1 # 0 /\ HasAt(s, d1, <<".">>) THEN DigitsEnd(s, d1 + 1) ELSE 0

\* the separator of the Annex section split: (A\.\d+\.\d+\s)
ANNEX_SPLIT_PATTERN(s, i) ==
    LET e == AnnexEnd(s, i)
    IN  IF e # 0 /\ e <= Len(s) /\ s[e] \in WhiteSpace THEN e + 1 ELSE 0

\* the match of the named pattern at position i
match_at(pattern, s, i) ==
    CASE pattern = "BSI_REQ"     -> BSI_REQ_PATTERN(s, i)
      [] pattern = "BSI_MODULE"  -> BSI_MODULE_PATTERN(s, i)
      [] pattern = "BSI_STD"     -> BSI_STD_PATTERN(s, i)
      [] pattern = "ISO_ANNEX"   -> ISO_ANNEX_PATTERN(s, i)
      [] pattern = "ISO_CLAUSE"  -> ISO_CLAUSE_PATTERN(s, i)
      [] pattern = "ANNEX_SPLIT" -> ANNEX_SPLIT_PATTERN(s, i)

\* pattern.findall(s) from position i: the non-overlapping matches, leftmost
\* first (every pattern has one group that spans the whole match)
RECURSIVE findall_from(_, _, _)
findall_from(pattern, s, i) ==
    IF i > Len(s) THEN <<>>
    ELSE LET e == match_at(pattern, s, i)
         IN  IF e = 0 THEN findall_from(pattern, s, i + 1)
             ELSE <<SubSeq(s, i, e - 1)>> \o findall_from(pattern, s, e)

findall(pattern, s) == findall_from(pattern, s, 1)

\* re.split(r"(A\.\d+\.\d+\s)", s): the text between the separators and the
\* separators themselves, alternating, in document order
RECURSIVE re_split_from(_, _, _)
re_split_from(s, last, i) ==
    IF i > Len(s) THEN <<SubSeq(s, last, Len(s))>>
    ELSE LET e == ANNEX_SPLIT_PATTERN(s, i)
         IN  IF e = 0 THEN re_split_from(s, last, i + 1)
             ELSE <<SubSeq(s, last, i - 1), SubSeq(s, i, e - 1)>>
                  \o re_split_from(s, e, e)

re_split(s) == re_split_from(s, 1, 1)

\* re.match(r"A\.(\d+)\.(\d+)\s*$", t) on a stripped t: t is a whole marker
is_annex_marker(t) == AnnexEnd(t, 1) = Len(t) + 1

\* _CLAUSE_START = ^(\d+(?:\.\d+)*)\s+[A-Z] : the end of group 1, or 0
RECURSIVE DottedEnd(_, _)
DottedEnd(s, d) ==
    IF OptDotDigits(s, d) = d THEN d ELSE DottedEnd(s, OptDotDigits(s, d))

CLAUSE_START(s) ==
    LET d == IF DigitsEnd(s, 1) # 0 THEN DottedEnd(s, DigitsEnd(s, 1)) ELSE 0
        w == IF d # 0 THEN RunEnd(s, d, WhiteSpace) ELSE 0
    IN  IF d # 0 /\ w > d /\ w <= Len(s) /\ s[w] \in Upper THEN d ELSE 0

\* re.match(r"^\d+\.\d+", clause_num)
is_sub_clause(clause_num) == ISO_CLAUSE_PATTERN(clause_num, 1) # 0

\* re.match(r"([A-Z]+)", s): group 1, or the empty string when no match
leading_letters(s) == SubSeq(s, 1, RunEnd(s, 1, Upper) - 1)

\* ------------------------------------------------------------------------
\* parse_bsi_zuordnung_pdf: constants and local helpers
\* ------------------------------------------------------------------------

S_BSI_Std_200 == <<"B","S","I","-","S","t","d","-","2","0","0","-">>

S_BSI_ElemGef == <<"B","S","I","-","E","l","e","m","G","e","f">>

S_Elementare == <<"E","l","e","m","e","n","t","a","r","e">>

S_Gef == <<"G","e","f">>

S_BSI_sp == <<"B","S","I"," ">>

S_BSI_Module_sp == <<"B","S","I"," ","M","o","d","u","l","e"," ">>

S_DotA == <<".","A">>

S_A_dot == <<"A",".">>

\* the category the PDF strategy gives the standard-reference controls
BSI_STANDARD == <<"B","S","I","-","S","t","a","n","d","a","r","d">>

\* _BSI_STD_TITLES, in insertion order (the order of .items())
BSI_STD_TITLES == <<
    [id |-> S_BSI_Std_200 \o <<"1">>,
     title |-> <<"B","S","I","-","S","t","a","n","d","a","r","d"," ","2","0","0","-","1",":"," ","M","a","n","a","g","e","m","e","n","t","s","y","s","t","e","m","e"," ","f","u","e","r"," ","I","n","f","o","r","m","a","t","i","o","n","s","s","i","c","h","e","r","h","e","i","t"," ","(","I","S","M","S",")">>],
    [id |-> S_BSI_Std_200 \o <<"2">>,
     title |-> <<"B","S","I","-","S","t","a","n","d","a","r","d"," ","2","0","0","-","2",":"," ","I","T","-","G","r","u","n","d","s","c","h","u","t","z","-","M","e","t","h","o","d","i","k">>],
    [id |-> S_BSI_Std_200 \o <<"3">>,
     title |-> <<"B","S","I","-","S","t","a","n","d","a","r","d"," ","2","0","0","-","3",":"," ","R","i","s","i","k","o","a","n","a","l","y","s","e"," ","a","u","f"," ","d","e","r"," ","B","a","s","i","s"," ","v","o","n"," ","I","T","-","G","r","u","n","d","s","c","h","u","t","z">>],
    [id |-> S_BSI_Std_200 \o <<"4">>,
     title |-> <<"B","S","I","-","S","t","a","n","d","a","r","d"," ","2","0","0","-","4",":"," ","B","u","s","i","n","e","s","s"," ","C","o","n","t","i","n","u","i","t","y"," ","M","a","n","a","g","e","m","e","n","t">>],
    [id |-> S_BSI_ElemGef,
     title |-> <<"E","l","e","m","e","n","t","a","r","e"," ","G","e","f","a","e","h","r","d","u","n","g","e","n"," ","(","G","0",")"," ","d","e","s"," ","I","T","-","G","r","u","n","d","s","c","h","u","t","z","-","K","o","m","p","e","n","d","i","u","m","s">>] >>

BSI_STD_IDS == {BSI_STD_TITLES[k].id : k \in 1..Len(BSI_STD_TITLES)}

\* _BSI_STD_TITLES.get(std_id, std_id)
std_title(std_id) ==
    IF std_id \in BSI_STD_IDS
    THEN BSI_STD_TITLES[CHOOSE k \in 1..Len(BSI_STD_TITLES) :
                            BSI_STD_TITLES[k].id = std_id].title
    ELSE std_id

\* the accumulators of one call: controls, mappings and the two dedup sets
EmptyAcc ==
    [controls |-> <<>>, mappings |-> <<>>, seen_bsi |-> {}, seen_mappings |-> {}]

\* the control _add_bsi appends for bsi_ctrl
bsi_control(bsi_ctrl, title, category) ==
    [control_id |-> bsi_ctrl,
     title |-> IF title # <<>> THEN title ELSE S_BSI_sp \o bsi_ctrl,
     category |-> IF category # <<>> THEN category
                  ELSE leading_letters(bsi_ctrl)]

\* _add_bsi that records the mapping of a new identifier without appending
\* its control
add_bsi_unregistered(a, bsi_ctrl, iso_ctrl, title, category) ==
    LET key == <<iso_ctrl, bsi_ctrl>>
    IN  IF key \notin a.seen_mappings
        THEN [a EXCEPT
                !.seen_bsi = @ \cup {bsi_ctrl},
                !.seen_mappings = @ \cup {key},
                !.mappings = Append(@, [source |-> iso_ctrl, target |-> bsi_ctrl])]
        ELSE a

\* _add_bsi that puts a new control and a new mapping at the head of its list
add_bsi_at_head(a, bsi_ctrl, iso_ctrl, title, category) ==
    LET a1 == IF bsi_ctrl \notin a.seen_bsi
              THEN [a EXCEPT
                      !.seen_bsi = @ \cup {bsi_ctrl},
                      !.controls = <<bsi_control(bsi_ctrl, title, category)>> \o @]
              ELSE a
        key == <<iso_ctrl, bsi_ctrl>>
    IN  IF key \notin a1.seen_mappings
        THEN [a1 EXCEPT
                !.seen_mappings = @ \cup {key},
                !.mappings = <<[source |-> iso_ctrl, target |-> bsi_ctrl]>> \o @]
        ELSE a1

\* _add_bsi(bsi_ctrl, iso_ctrl, title, category) on the accumulators a
add_bsi(a, bsi_ctrl, iso_ctrl, title, category) ==
    LET a1 == IF bsi_ctrl \notin a.seen_bsi
              THEN [a EXCEPT
                      !.seen_bsi = @ \cup {bsi_ctrl},
                      !.controls = Append(@, bsi_control(bsi_ctrl, title, category))]
              ELSE a
        key == <<iso_ctrl, bsi_ctrl>>
    IN  IF key \notin a1.seen_mappings
        THEN [a1 EXCEPT
                !.seen_mappings = @ \cup {key},
                !.mappings = Append(@, [source |-> iso_ctrl, target |-> bsi_ctrl])]
        ELSE a1

\* refs with x appended unless it is there already
append_new(refs, x) ==
    IF \E k \in 1..Len(refs) : refs[k] = x THEN refs ELSE Append(refs, x)

\* the loop of _extract_std_refs over the matches of _BSI_STD_PATTERN: the
\* number is the last character of each match
RECURSIVE std_ids_of(_, _)
std_ids_of(raws, refs) ==
    IF Len(raws) = 0 THEN refs
    ELSE std_ids_of(Tail(raws),
                    append_new(refs, S_BSI_Std_200 \o <<raws[1][Len(raws[1])]>>))

\* re.search(r"Elementare\s+Gef", text_block)
has_elem_gef(text_block) ==
    \E i \in 1..Len(text_block) :
        /\ HasAt(text_block, i, S_Elementare)
        /\ RunEnd(text_block, i + Len(S_Elementare), WhiteSpace)
               > i + Len(S_Elementare)
        /\ HasAt(text_block,
                 RunEnd(text_block, i + Len(S_Elementare), WhiteSpace), S_Gef)

\* _extract_std_refs(text_block)
extract_std_refs(text_block) ==
    LET refs == std_ids_of(findall("BSI_STD", text_block), <<>>)
    IN  IF has_elem_gef(text_block) THEN append_new(refs, S_BSI_ElemGef) ELSE refs

\* for std_id in ids: _add_bsi(std_id, iso_ctrl, title of std_id, "BSI-Standard")
RECURSIVE add_std_refs(_, _, _)
add_std_refs(a, ids, iso_ctrl) ==
    IF Len(ids) = 0 THEN a
    ELSE add_std_refs(add_bsi(a, ids[1], iso_ctrl, std_title(ids[1]), BSI_STANDARD),
                      Tail(ids), iso_ctrl)

\* for bsi_ctrl in ids: _add_bsi(bsi_ctrl, iso_ctrl)
RECURSIVE add_reqs(_, _, _)
add_reqs(a, ids, iso_ctrl) ==
    IF Len(ids) = 0 THEN a
    ELSE add_reqs(add_bsi(a, ids[1], iso_ctrl, <<>>, <<>>), Tail(ids), iso_ctrl)

\* the test of the module branch of the Annex section pass
is_new_module(bsi_mod, seen) == ~In(S_DotA, bsi_mod) /\ bsi_mod \notin seen

\* the module branch of the Annex section pass, for one match bsi_mod
add_module(a, bsi_mod) ==
    IF is_new_module(bsi_mod, a.seen_bsi)
    THEN [a EXCEPT
            !.seen_bsi = @ \cup {bsi_mod},
            !.controls = Append(@,
                [control_id |-> bsi_mod,
                 title |-> S_BSI_Module_sp \o bsi_mod,
                 category |-> leading_letters(bsi_mod)])]
    ELSE a

RECURSIVE add_modules(_, _)
add_modules(a, mods) ==
    IF Len(mods) = 0 THEN a
    ELSE add_modules(add_module(a, mods[1]), Tail(mods))

\* a pre-creation step that leaves the category to the default of _add_bsi,
\* the leading capitals of the identifier
preseed_one_default_category(a, e) ==
    IF e.id \notin a.seen_bsi
    THEN [a EXCEPT
            !.seen_bsi = @ \cup {e.id},
            !.controls = Append(@, bsi_control(e.id, e.title, <<>>))]
    ELSE a

\* one iteration of the pre-creation loop, for the entry e of _BSI_STD_TITLES
preseed_one(a, e) ==
    IF e.id \notin a.seen_bsi
    THEN [a EXCEPT
            !.seen_bsi = @ \cup {e.id},
            !.controls = Append(@,
                [control_id |-> e.id, title |-> e.title, category |-> BSI_STANDARD])]
    ELSE a

\* a pre-creation loop that registers nothing
preseed_skipped(a, k) == a

\* the pre-creation loop over _BSI_STD_TITLES.items(), from entry k on
RECURSIVE preseed(_, _)
preseed(a, k) ==
    IF k > Len(BSI_STD_TITLES) THEN a
    ELSE preseed(preseed_one(a, BSI_STD_TITLES[k]), k + 1)

\* _flush_clause that reads the header line of the clause only
flush_clause_header_only(a, cur_clause, buffer) ==
    IF cur_clause # None /\ Len(buffer) > 0
    THEN add_std_refs(a, extract_std_refs(buffer[1]), cur_clause)
    ELSE a

\* the accumulators after _flush_clause() (which also empties clause_buffer)
flush_clause(a, cur_clause, buffer) ==
    IF cur_clause # None /\ Len(buffer) > 0
    THEN add_std_refs(a, extract_std_refs(join(<<" ">>, buffer)), cur_clause)
    ELSE a

\* the body of one Annex section under the cursor iso: requirement
\* identifiers, then module identifiers, then standard references
scan_section(a, section, iso) ==
    add_std_refs(
        add_modules(add_reqs(a, findall("BSI_REQ", section), iso),
                    findall("BSI_MODULE", section)),
        extract_std_refs(section), iso)

\* re.match(r"^A\.(\d+)\.(\d+)\s+(.+)", line): the start of group 3, or 0.
\* \s+ gives back its last character when nothing else is left for (.+)
iso_start(line) ==
    LET e == AnnexEnd(line, 1)
        w == IF e # 0 THEN RunEnd(line, e, WhiteSpace) ELSE 0
    IN  IF e = 0 \/ w = e THEN 0
        ELSE IF w <= Len(line) THEN w
        ELSE IF w - e >= 2 THEN w - 1
        ELSE 0

\* f"A.{group(1)}.{group(2)}" of a line that iso_start matches
iso_of(line) == SubSeq(line, 1, AnnexEnd(line, 1) - 1)

\* ------------------------------------------------------------------------
\* parse_excel: helpers
\* ------------------------------------------------------------------------

DigitSeq == <<"0", "1", "2", "3", "4", "5", "6", "7", "8", "9">>

\* str(n) of a natural number
RECURSIVE int_str(_)
int_str(n) ==
    IF n < 10 THEN <<DigitSeq[n + 1]>>
    ELSE int_str(n \div 10) \o <<DigitSeq[(n % 10) + 1]>>

\* the cell values _extract_iso_refs reads as "no mapping"
NO_MAPPING_VALUES == {<<"-">>, <<"n","/","a">>, <<"n","a","n">>, <<>>}

\* the loop of _extract_iso_refs over the clause matches
RECURSIVE add_clause_refs(_, _)
add_clause_refs(refs, clauses) ==
    IF Len(clauses) = 0 THEN refs
    ELSE add_clause_refs(
           IF \E k \in 1..Len(refs) : In(clauses[1], refs[k])
           THEN refs ELSE Append(refs, clauses[1]),
           Tail(clauses))

\* _extract_iso_refs that takes a cell it cannot split as one reference
extract_iso_refs_whole(raw) ==
    IF Len(raw) = 0 THEN <<>>
    ELSE IF findall("ISO_ANNEX", raw) = <<>> /\ findall("ISO_CLAUSE", raw) = <<>>
    THEN <<strip(raw)>>
    ELSE add_clause_refs(findall("ISO_ANNEX", raw), findall("ISO_CLAUSE", raw))

\* _extract_iso_refs(raw)
extract_iso_refs(raw) ==
    IF Len(raw) = 0 \/ strip(raw) \in NO_MAPPING_VALUES THEN <<>>
    ELSE add_clause_refs(findall("ISO_ANNEX", raw), findall("ISO_CLAUSE", raw))

\* _C5_REF_PATTERN.match(ref_val), ([A-Z]{2,4})-(\d{2}): the end of group 1,
\* or 0 when there is no match
C5_REF_PATTERN(s) ==
    LET l == RunEnd(s, 1, Upper)
    IN  IF /\ l - 1 >= 2 /\ l - 1 <= 4
           /\ HasAt(s, l, <<"-">>)
           /\ l + 2 <= Len(s) /\ s[l + 1] \in Digit /\ s[l + 2] \in Digit
        THEN l ELSE 0

S_C5 == <<"C","5">>

\* the category parse_excel gives the control of a row
excel_category(ref_val, dtype) ==
    IF In(S_C5, dtype) \/ C5_REF_PATTERN(ref_val) # 0
    THEN SubSeq(ref_val, 1, C5_REF_PATTERN(ref_val) - 1)
    ELSE leading_letters(ref_val)

\* a cell is a str or NaN (pd.isna), a value no str equals
NaN == <<"NaN">>

\* row.get(col) of a row of a frame with the given columns: the first cell
\* under that name, or None
row_get(columns, row, col) ==
    IF \E k \in 1..Len(columns) : columns[k] = col
    THEN row[CHOOSE k \in 1..Len(columns) :
                 columns[k] = col /\ \A j \in 1..(k - 1) : columns[j] # col]
    ELSE None

\* _safe_str(row, col)
safe_str(columns, row, col) ==
    IF col = None THEN <<>>
    ELSE LET val == row_get(columns, row, col)
         IN  IF val = None \/ val = NaN THEN <<>> ELSE strip(val)

KEYWORDS == <<<<"r","e","f">>, <<"t","i","t","l","e">>, <<"c","r","i","t","e","r","i","a">>, <<"d","e","s","c","r","i","p","t","i","o","n">>>>

\* the score _find_header_row gives one row: one per (cell, keyword) pair
\* with the keyword contained in the lower-cased, stripped cell
RECURSIVE row_score(_, _)
row_score(row, k) ==
    IF k > Len(row) THEN 0
    ELSE (IF row[k] = NaN THEN 0
          ELSE Cardinality({j \in 1..Len(KEYWORDS) :
                               In(KEYWORDS[j], lower(strip(row[k])))}))
         + row_score(row, k + 1)

MAX_HEADER_ROWS == 5

MIN_HEADER_SCORE == 2

MIN_SHEET_ROWS == 3

Min(a, b) == IF a <= b THEN a ELSE b

\* best_row = None of _find_header_row
NoRow == 0 - 1

\* the loop of _find_header_row from row i (0-based) on, returning
\* [best_row, best_score]
RECURSIVE best_header(_, _, _, _)
best_header(rows, i, best_row, best_score) ==
    IF i >= Min(MAX_HEADER_ROWS, Len(rows))
    THEN [best_row |-> best_row, best_score |-> best_score]
    ELSE IF row_score(rows[i + 1], 1) > best_score
         THEN best_header(rows, i + 1, i, row_score(rows[i + 1], 1))
         ELSE best_header(rows, i + 1, best_row, best_score)

\* _find_header_row(df_raw): a 0-based row index, or NoRow
find_header_row(rows) ==
    LET b == best_header(rows, 0, NoRow, 0)
    IN  IF b.best_score >= MIN_HEADER_SCORE THEN b.best_row ELSE NoRow

S_Unnamed == <<"U","n","n","a","m","e","d",":"," ">>

\* pandas' column labels for the header cells: an empty cell is named
\* "Unnamed: <position>", a repeated label X becomes X.1, X.2, ...
pandas_columns(header) ==
    LET raw == [k \in 1..Len(header) |->
                  IF header[k] = NaN THEN S_Unnamed \o int_str(k - 1)
                  ELSE header[k]]
    IN  [k \in 1..Len(raw) |->
           LET c == Cardinality({j \in 1..(k - 1) : raw[j] = raw[k]})
           IN  IF c = 0 THEN raw[k] ELSE raw[k] \o <<".">> \o int_str(c)]

\* the column names after the renaming loop of parse_excel: the stripped
\* name, and name_<n> for its n-th repetition
dedup_columns(cols) ==
    [k \in 1..Len(cols) |->
       LET c == Cardinality({j \in 1..(k - 1) : strip(cols[j]) = strip(cols[k])})
       IN  IF c = 0 THEN strip(cols[k])
           ELSE strip(cols[k]) \o <<"_">> \o int_str(c)]

\* result.setdefault(role, col) on the roles found so far
setdefault(res, role, col) ==
    IF res[role] = None THEN [res EXCEPT ![role] = col] ELSE res

NoRoles == [ref |-> None, title |-> None, description |-> None, iso |-> None]

\* the loop of _detect_columns from column k on
RECURSIVE detect_loop(_, _, _, _)
detect_loop(columns, k, res, ref_count) ==
    IF k > Len(columns) THEN res
    ELSE LET col == columns[k]
             low == lower(col)
         IN  IF In(<<"r","e","f">>, low) /\ ~In(<<"i","s","o">>, low)
             THEN detect_loop(columns, k + 1,
                              IF ref_count = 0 THEN setdefault(res, "ref", col)
                              ELSE setdefault(res, "iso", col),
                              ref_count + 1)
             ELSE IF In(<<"t","i","t","l","e">>, low)
             THEN detect_loop(columns, k + 1,
                              setdefault(res, "title", col), ref_count)
             ELSE IF In(<<"c","r","i","t","e","r","i","a">>, low) \/ In(<<"d","e","s","c","r","i","p","t","i","o","n">>, low)
                     \/ In(<<"b","a","s","i","c">>, low)
             THEN detect_loop(columns, k + 1,
                              setdefault(res, "description", col), ref_count)
             ELSE IF In(<<"i","s","o">>, low) \/ In(<<"2","7","0","0","1">>, low)
             THEN detect_loop(columns, k + 1,
                              setdefault(res, "iso", col), ref_count)
             ELSE detect_loop(columns, k + 1, res, ref_count)

\* _detect_columns(columns, doc_type): the roles, or NoRoles for None
detect_columns(columns) ==
    LET res == detect_loop(columns, 1, NoRoles, 0)
    IN  IF res.ref # None /\ res.iso # None THEN res
        ELSE IF Len(columns) >= 4
        THEN [ref |-> columns[1], title |-> columns[2],
              description |-> columns[3], iso |-> columns[4]]
        ELSE NoRoles

S_Control_sp == <<"C","o","n","t","r","o","l"," ">>

\* the control parse_excel registers for a row
excel_control(ctrl_id, title_val, desc_val, category) ==
    [control_id |-> ctrl_id,
     title |-> IF title_val # <<>> THEN title_val ELSE S_Control_sp \o ctrl_id,
     description |-> desc_val,
     category |-> category]

has_control(ctrls, ctrl_id) ==
    \E k \in 1..Len(ctrls) : ctrls[k].control_id = ctrl_id

\* the mapping loop of parse_excel over iso_refs for the control ctrl_id
RECURSIVE add_iso_refs(_, _, _)
add_iso_refs(a, iso_refs, ctrl_id) ==
    IF Len(iso_refs) = 0 THEN a
    ELSE add_iso_refs(
           IF <<iso_refs[1], ctrl_id>> \notin a.seen_mappings
           THEN [a EXCEPT
                   !.seen_mappings = @ \cup {<<iso_refs[1], ctrl_id>>},
                   !.mappings = Append(@, [source |-> iso_refs[1],
                                           target |-> ctrl_id])]
           ELSE a,
           Tail(iso_refs), ctrl_id)

\* the body of the row loop of parse_excel, for a row that is not skipped
excel_row(a, ref_val, iso_val, title_val, desc_val, dtype) ==
    LET a1 == IF ~has_control(a.controls, ref_val)
              THEN [a EXCEPT !.controls = Append(@,
                       excel_control(ref_val, title_val, desc_val,
                                     excel_category(ref_val, dtype)))]
              ELSE a
    IN  add_iso_refs(a1, extract_iso_refs(iso_val), ref_val)

\* the sheets parse_excel reads: those with "map" or "reference" in the
\* name, or all of them when there is none
RECURSIVE hinted_indices(_, _)
hinted_indices(names, k) ==
    IF k > Len(names) THEN <<>>
    ELSE (IF In(<<"m","a","p">>, lower(names[k])) \/ In(<<"r","e","f","e","r","e","n","c","e">>, lower(names[k]))
          THEN <<k>> ELSE <<>>) \o hinted_indices(names, k + 1)

\* target_sheets, as positions in sheet_names
target_sheet_indices(names) ==
    IF Len(hinted_indices(names, 1)) = 0
    THEN [k \in 1..Len(names) |-> k]
    ELSE hinted_indices(names, 1)

\* ------------------------------------------------------------------------
\* parse_csv: helpers
\* ------------------------------------------------------------------------

is_source_name(col) ==
    LET col_upper == upper(col)
    IN  In(<<"I","S","O">>, col_upper) \/ In(<<"2","7","0","0","1">>, col_upper) \/ In(<<"S","O","U","R","C","E">>, col_upper)

is_target_name(col) ==
    LET col_upper == upper(col)
    IN  In(<<"B","S","I">>, col_upper) \/ In(<<"C","5">>, col_upper) \/ In(<<"T","A","R","G","E","T">>, col_upper)

\* the column loop of parse_csv from column k on: [iso_col, target_col]
RECURSIVE csv_roles(_, _, _, _)
csv_roles(columns, k, iso_c, target_c) ==
    IF k > Len(columns) THEN [iso_col |-> iso_c, target_col |-> target_c]
    ELSE IF is_source_name(columns[k])
         THEN csv_roles(columns, k + 1, columns[k], target_c)
    ELSE IF is_target_name(columns[k])
         THEN csv_roles(columns, k + 1, iso_c, columns[k])
    ELSE csv_roles(columns, k + 1, iso_c, target_c)

\* str(row[col]).strip() if pd.notna(row[col]) else ""
csv_cell(columns, row, col) ==
    LET val == row_get(columns, row, col)
    IN  IF val = NaN THEN <<>> ELSE strip(val)

S_nan == <<"n","a","n">>

\* the body of the row loop without the test for the text "nan"
csv_row_with_nan(a, iso_val, target_val) ==
    IF iso_val # <<>> /\ target_val # <<>>
    THEN [a EXCEPT
            !.mappings = Append(@, [source |-> iso_val, target |-> target_val]),
            !.controls = IF ~has_control(a.controls, target_val)
                         THEN Append(@, [control_id |-> target_val,
                                         title |-> S_Control_sp \o target_val,
                                         category |-> <<>>])
                         ELSE @]
    ELSE a

\* the body of the row loop of parse_csv
csv_row(a, iso_val, target_val) ==
    IF iso_val # <<>> /\ target_val # <<>> /\ iso_val # S_nan /\ target_val # S_nan
    THEN [a EXCEPT
            !.mappings = Append(@, [source |-> iso_val, target |-> target_val]),
            !.controls = IF ~has_control(a.controls, target_val)
                         THEN Append(@, [control_id |-> target_val,
                                         title |-> S_Control_sp \o target_val,
                                         category |-> <<>>])
                         ELSE @]
    ELSE a

\* repr(s) of a str without quotes, backslashes or control characters
py_repr(s) == <<"'">> \o s \o <<"'">>

\* str(list of str)
list_repr(names) ==
    <<"[">> \o join(<<","," ">>, [k \in 1..Len(names) |-> py_repr(names[k])]) \o <<"]">>

\* ------------------------------------------------------------------------
\* Inputs
\* ------------------------------------------------------------------------

\* the longest sequences the inputs are drawn from
MaxPages == 2

RECURSIVE SeqsUpTo(_, _)
SeqsUpTo(S, n) ==
    IF n = 0 THEN {<<>>}
    ELSE LET shorter == SeqsUpTo(S, n - 1)
         IN  shorter \cup {Append(q, x) : q \in {r \in shorter : Len(r) = n - 1},
                                         x \in S}

\* what page.extract_text() returns for a page: None, or its text
PageTexts == {
    None,
    <<"A",".","5",".","1"," ","P","\n","I","S","M","S",".","1",".","A","3"," ","b">>,
    <<"A",".","5",".","1">>,
    <<"6",".","2"," ","O"," ","B","S","I","-","S","t","a","n","d","a","r","d"," ","2","0","0","-","2">>,
    <<"6"," ","P"," ","B","S","I","-","S","t","a","n","d","a","r","d"," ","2","0","0","-","1">>,
    <<"x"," ","E","l","e","m","e","n","t","a","r","e"," ","G","e","f">>,
    <<"A",".","5",".","2"," ","\n","O","P","S",".","1",".","1",".","A","2"," ","I","S","M","S",".","1",".","A","3">>,
    <<"t"," ","A",".","8",".","1"," ","O","R","P",".","4"," ","x">>,
    <<"A",".","x"," ","7",".","1"," ","R"," ","B","S","I","-","S","t","a","n","d","a","r","d"," ","2","0","0","-","3">>
}

\* the message of the exception a reader raises on bytes it cannot read
S_bad_file == <<"b","a","d"," ","f","i","l","e">>

PdfContents ==
    {[kind |-> "pdf", pages |-> ps] : ps \in SeqsUpTo(PageTexts, MaxPages)}

\* the longest run of data rows of a sheet or of a CSV table
MaxRows == 2

\* the most sheets of a workbook
MaxSheets == 2

\* the C5:2020 layout: a merged title row, then the header row
C5_TITLE_ROW == <<<<"C","5",":","2","0","2","0">>, NaN, NaN, NaN>>

C5_HEADER_ROW == <<<<"R","e","f">>, <<"T","i","t","l","e">>, <<"B","a","s","i","c"," ","C","r","i","t","e","r","i","a">>, <<"R","e","f">>>>

\* data rows of that layout: reference, title, criteria, cross-reference
ExcelRowPool ==
    {<<rt[1], rt[2], NaN, iso>> :
        rt \in {<<NaN, NaN>>, <<<<"O","I","S","-","0","1">>, <<"T">>>>, <<<<"I","S","M","S",".","1">>, NaN>>},
        iso \in {NaN, <<"-">>, <<"A",".","5",".","1">>, <<"A",".","5",".","1","5",","," ","A",".","8",".","3">>}}

Sheet(name, rows) == [name |-> name, readable |-> TRUE, rows |-> rows]

C5Sheets ==
    {Sheet(<<"M","a","p","p","i","n","g">>, <<C5_TITLE_ROW, C5_HEADER_ROW>> \o rows) :
        rows \in SeqsUpTo(ExcelRowPool, MaxRows)}

\* sheets of other shapes: a two-column table, a sheet without header, a
\* sheet of two rows, a sheet whose reading fails, two sheets whose header
\* names no reference column, and a sheet whose header has both of its
\* keywords in one cell
OtherSheets == {
    Sheet(<<"S","h","e","e","t","1">>, <<C5_HEADER_ROW, <<<<"O","I","S","-","0","1">>, <<"T">>, NaN, <<"A",".","5",".","1">>>>,
                     <<<<"I","D","M","-","0","1">>, NaN, NaN, <<"n","/","a">>>>>>),
    Sheet(<<"I","S","O"," ","M","a","p">>, <<<<<<"C","o","n","t","r","o","l"," ","R","e","f">>, <<"I","S","O"," ","R","e","f">>>>, <<<<"I","S","M","S",".","1">>, <<"A",".","5",".","1">>>>,
                      <<<<"I","S","M","S",".","1">>, <<"n","a","n">>>>>>),
    Sheet(<<"N","o","t","e","s">>, <<<<<<"x">>>>, <<<<"y">>>>, <<<<"z">>>>>>),
    Sheet(<<"R","e","f","e","r","e","n","c","e">>, <<C5_HEADER_ROW, <<<<"S","P","-","0","1">>, NaN, NaN, <<"A",".","5",".","1">>>>>>),
    [name |-> <<"S","h","e","e","t","2">>, readable |-> FALSE, rows |-> <<>>],
    Sheet(<<"S","h","e","e","t","3">>, <<<<<<"T","i","t","l","e">>, <<"D","e","s","c","r","i","p","t","i","o","n">>, <<"x">>, <<"y">>>>,
                     <<<<"P","S","S","-","0","1">>, <<"T">>, NaN, <<"4",".","1">>>>, <<<<"P","S","S","-","0","1">>, NaN, NaN, NaN>>>>),
    Sheet(<<"S","h","e","e","t","4">>, <<<<<<"T","i","t","l","e">>, <<"D","e","s","c","r","i","p","t","i","o","n">>, <<"x">>>>,
                     <<<<"P","S","S","-","0","1">>, <<"T">>, NaN>>, <<<<"P","S","S","-","0","2">>, <<"T">>, NaN>>>>),
    Sheet(<<"S","h","e","e","t","5">>, <<<<<<"R","e","f"," ","/"," ","T","i","t","l","e">>, <<"I","S","O">>>>,
                     <<<<"O","I","S","-","0","1">>, <<"A",".","5",".","1">>>>, <<<<"O","I","S","-","0","2">>, <<"-">>>>>>)
}

\* bytes no reader can read
CORRUPT == [kind |-> "corrupt"]

C5Workbooks == {[kind |-> "xlsx", sheets |-> <<s>>] : s \in C5Sheets}

OtherWorkbooks ==
    {[kind |-> "xlsx", sheets |-> ss] :
        ss \in SeqsUpTo(OtherSheets, MaxSheets) \ {<<>>}}

ExcelContents == C5Workbooks \cup OtherWorkbooks

RAW_TEXT_LIMIT == 10000

\* a column name as long as the longest raw_text of a PDF result
LONG_COLUMN == [k \in 1..RAW_TEXT_LIMIT |-> "x"]

CsvRowPool2 ==
    {<<src, tgt>> : src \in {NaN, <<"A",".","8",".","2","4">>, <<"n","a","n">>}, tgt \in {NaN, <<"C","R","Y","-","0","1">>}}

CsvRowPool3 ==
    {<<<<"A",".","8",".","2","4">>, <<"A",".","5",".","1">>, <<"C","R","Y","-","0","1">>>>, <<NaN, <<"A",".","5",".","1">>, <<"C","R","Y","-","0","1">>>>,
     <<<<"A",".","8",".","2","4">>, NaN, <<"O","I","S","-","0","1">>>>}

CsvContents ==
    {[kind |-> "csv", columns |-> cols, rows |-> rows] :
        cols \in {<<<<"S","o","u","r","c","e">>, <<"T","a","r","g","e","t">>>>, <<<<"I","S","O"," ","2","7","0","0","1">>, <<"C","5">>>>, <<<<"a">>, <<"b">>>>},
        rows \in SeqsUpTo(CsvRowPool2, MaxRows)}
    \cup {[kind |-> "csv", columns |-> <<<<"S","o","u","r","c","e">>, <<"I","S","O">>, <<"T","a","r","g","e","t">>>>, rows |-> rows] :
             rows \in SeqsUpTo(CsvRowPool3, MaxRows)}
    \cup {[kind |-> "csv", columns |-> <<LONG_COLUMN, <<"T","a","r","g","e","t">>>>, rows |-> <<>>]}

\* bytes of each kind, for the names no strategy reads
SampleContents ==
    {CORRUPT,
     [kind |-> "pdf", pages |-> <<<<"A",".","5",".","1">>>>],
     [kind |-> "csv", columns |-> <<<<"S","o","u","r","c","e">>, <<"T","a","r","g","e","t">>>>, rows |-> <<>>]}

\* the uploads: a file name and the bytes sent under it.  Every suffix the
\* dispatcher tests comes with documents of its kind and with bytes its
\* reader cannot read; the names it rejects (another suffix, a suffix
\* inside the name, no dot at all) come with bytes of several kinds
Uploads ==
    ({<<"a",".","p","d","f">>} \X (PdfContents \cup {CORRUPT}))
    \cup ({<<"b",".","X","L","S","X">>} \X (C5Workbooks \cup {CORRUPT}))
    \cup ({<<"b",".","x","l","s">>} \X (OtherWorkbooks \cup {CORRUPT}))
    \cup ({<<"c",".","c","s","v">>} \X (CsvContents \cup {CORRUPT, [kind |-> "pdf", pages |-> <<>>]}))
    \cup ({<<"D",".","t","x","t">>, <<"e",".","p","d","f",".","b","a","k">>, <<"p","d","f">>} \X SampleContents)

DocTypes == {<<"C","5">>, <<"B","S","I">>}

\* ------------------------------------------------------------------------
\* State
\* ------------------------------------------------------------------------

VARIABLES
    filename, doc_type, content,        \* the arguments of parse_uploaded_bytes
    pc,                                 \* the statement the call has reached
    strategy,                           \* the strategy the dispatcher invoked
    result,                             \* the dict the call returned
    controls, mappings, seen_bsi, seen_mappings,
    full_text, lines, sections, idx,
    current_clause, clause_buffer, current_iso,
    target_sheets, sheet_i,             \* parse_excel: the sheet loop
    df_columns, df_rows, col_map,       \* the frame of the sheet or table
    iso_col, target_col,                \* parse_csv: the column roles
    suspended,                          \* the call that is not running now
    alone,                              \* the dict the call returned on its own
    db                                  \* the persisted tables

inputs == <<filename, doc_type, content>>

accs == <<controls, mappings, seen_bsi, seen_mappings>>

pdf_locals == <<full_text, lines, sections, current_clause, clause_buffer, current_iso>>

table_locals == <<target_sheets, sheet_i, df_columns, df_rows, col_map, iso_col, target_col>>

\* what a step of the running call cannot reach: the locals of another
\* call, a dict returned earlier, and the persisted tables
other_calls == <<suspended, alone, db>>

vars == <<filename, doc_type, content, pc, strategy, result,
          controls, mappings, seen_bsi, seen_mappings,
          full_text, lines, sections, idx,
          current_clause, clause_buffer, current_iso,
          target_sheets, sheet_i, df_columns, df_rows, col_map, iso_col, target_col,
          suspended, alone, db>>

\* no dict returned yet
Pending == [pending |-> TRUE]

\* no other call
NoCall == [pc |-> "none"]

\* the tables after init_db: no control and no mapping
EmptyTables == [controls |-> {}, mappings |-> {}]

Acc == [controls |-> controls, mappings |-> mappings,
        seen_bsi |-> seen_bsi, seen_mappings |-> seen_mappings]

SetAcc(a) ==
    /\ controls' = a.controls
    /\ mappings' = a.mappings
    /\ seen_bsi' = a.seen_bsi
    /\ seen_mappings' = a.seen_mappings

Init ==
    /\ \E u \in Uploads : filename = u[1] /\ content = u[2]
    /\ doc_type \in DocTypes
    /\ pc = "call"
    /\ strategy = None
    /\ result = Pending
    /\ controls = <<>> /\ mappings = <<>>
    /\ seen_bsi = {} /\ seen_mappings = {}
    /\ full_text = <<>> /\ lines = <<>> /\ sections = <<>> /\ idx = 0
    /\ current_clause = None /\ clause_buffer = <<>> /\ current_iso = None
    /\ target_sheets = <<>> /\ sheet_i = 0
    /\ df_columns = <<>> /\ df_rows = <<>> /\ col_map = NoRoles
    /\ iso_col = None /\ target_col = None
    /\ suspended = NoCall /\ alone = Pending
    /\ db = EmptyTables

\* ------------------------------------------------------------------------
\* parse_uploaded_bytes
\* ------------------------------------------------------------------------

S_pdf == <<".","p","d","f">>

S_xlsx == <<".","x","l","s","x">>

S_xls == <<".","x","l","s">>

S_csv == <<".","c","s","v">>

S_Unsupported == <<"U","n","s","u","p","p","o","r","t","e","d"," ","f","i","l","e"," ","t","y","p","e",":"," ">>

\* suffix tests written as substring tests
select_strategy_anywhere(fname) ==
    IF In(S_pdf, fname) THEN <<"p","d","f">>
    ELSE IF In(S_xlsx, fname) \/ In(S_xls, fname) THEN <<"e","x","c","e","l">>
    ELSE IF In(S_csv, fname) THEN <<"c","s","v">>
    ELSE None

\* the strategy the suffix of the lower-cased filename selects
select_strategy(fname) ==
    IF endswith(fname, S_pdf) THEN <<"p","d","f">>
    ELSE IF endswith(fname, S_xlsx) \/ endswith(fname, S_xls) THEN <<"e","x","c","e","l">>
    ELSE IF endswith(fname, S_csv) THEN <<"c","s","v">>
    ELSE None

\* an except clause that returns the dict of the unsupported branch, which
\* has no raw_text
error_result_bare(message) == [success |-> FALSE, error |-> message]

\* the dict the except clause of parse_uploaded_bytes returns
error_result(message) == [success |-> FALSE, error |-> message, raw_text |-> <<>>]

\* a strategy raises: the dispatcher catches it and returns
Raise(message) ==
    /\ result' = error_result(message)
    /\ pc' = "done"

\* filename = filename.lower() and the suffix tests
Dispatch ==
    /\ pc = "call"
    /\ LET fname == lower(filename)
       IN  IF select_strategy(fname) = None
           THEN /\ result' = [success |-> FALSE, error |-> S_Unsupported \o fname]
                /\ pc' = "done"
                /\ strategy' = None
           ELSE /\ strategy' = select_strategy(fname)
                /\ pc' = "open"
                /\ result' = result
    /\ UNCHANGED <<inputs, other_calls, accs, pdf_locals, idx, table_locals>>

\* ------------------------------------------------------------------------
\* parse_bsi_zuordnung_pdf
\* ------------------------------------------------------------------------

\* page.extract_text() or ""
page_text(p) == IF p = None THEN <<>> ELSE p

\* a strategy whose dedup sets outlive the call (module-level sets), while
\* its lists are created per call
PdfOpenSharedSeen ==
    /\ pc = "open" /\ strategy = <<"p","d","f">>
    /\ controls' = <<>> /\ mappings' = <<>>
    /\ UNCHANGED <<seen_bsi, seen_mappings>>
    /\ IF content.kind = "pdf"
       THEN /\ full_text' = join(<<"\n">>,
                   [k \in 1..Len(content.pages) |-> page_text(content.pages[k])])
            /\ pc' = "pdf_preseed"
            /\ result' = result
       ELSE /\ Raise(S_bad_file)
            /\ full_text' = full_text
    /\ UNCHANGED <<table_locals, inputs, other_calls, strategy, lines, sections, idx,
                   current_clause, clause_buffer, current_iso>>

\* the locals of the call and the text of all pages, joined with newlines;
\* pdfplumber.open raises on bytes that are no PDF
PdfOpen ==
    /\ pc = "open" /\ strategy = <<"p","d","f">>
    /\ SetAcc(EmptyAcc)
    /\ IF content.kind = "pdf"
       THEN /\ full_text' = join(<<"\n">>,
                   [k \in 1..Len(content.pages) |-> page_text(content.pages[k])])
            /\ pc' = "pdf_preseed"
            /\ result' = result
       ELSE /\ Raise(S_bad_file)
            /\ full_text' = full_text
    /\ UNCHANGED <<table_locals, inputs, other_calls, strategy, lines, sections, idx,
                   current_clause, clause_buffer, current_iso>>

\* the pre-creation of the BSI-Standard controls, and the set-up of pass 1
PdfPreseed ==
    /\ pc = "pdf_preseed"
    /\ SetAcc(preseed(Acc, 1))
    /\ lines' = split_lines(full_text)
    /\ current_clause' = None
    /\ clause_buffer' = <<>>
    /\ idx' = 1
    /\ pc' = "pdf_clause"
    /\ UNCHANGED <<table_locals, inputs, other_calls, strategy, result, full_text, sections, current_iso>>

\* the cursor that takes the number of every clause header
next_clause_any(cur_clause, clause_num) == clause_num

\* current_clause after a clause header: its number when it is that of a
\* sub-clause, the cursor as it was otherwise
next_clause(cur_clause, clause_num) ==
    IF is_sub_clause(clause_num) THEN clause_num ELSE cur_clause

\* one iteration of the clause loop (pass 1), for lines[idx]
PdfClauseLine ==
    /\ pc = "pdf_clause"
    /\ LET stripped == strip(lines[idx])
           d == CLAUSE_START(stripped)
           clause_num == SubSeq(stripped, 1, d - 1)
       IN  IF stripped = <<>>
           THEN /\ UNCHANGED <<accs, current_clause, clause_buffer>>
                /\ pc' = IF idx = Len(lines) THEN "pdf_clause_end" ELSE pc
           ELSE IF startswith(stripped, S_A_dot)
           THEN /\ SetAcc(flush_clause(Acc, current_clause, clause_buffer))
                /\ clause_buffer' = <<>>
                /\ current_clause' = None
                /\ pc' = "pdf_clause_end"
           ELSE IF d # 0
           THEN /\ SetAcc(flush_clause(Acc, current_clause, clause_buffer))
                /\ current_clause' = next_clause(current_clause, clause_num)
                /\ clause_buffer' = <<stripped>>
                /\ pc' = IF idx = Len(lines) THEN "pdf_clause_end" ELSE pc
           ELSE /\ clause_buffer' = IF current_clause # None
                                    THEN Append(clause_buffer, stripped)
                                    ELSE clause_buffer
                /\ UNCHANGED <<accs, current_clause>>
                /\ pc' = IF idx = Len(lines) THEN "pdf_clause_end" ELSE pc
    /\ idx' = idx + 1
    /\ UNCHANGED <<table_locals, inputs, other_calls, strategy, result, full_text, lines, sections, current_iso>>

\* the flush after the clause loop, and the set-up of pass 2
PdfClauseEnd ==
    /\ pc = "pdf_clause_end"
    /\ SetAcc(flush_clause(Acc, current_clause, clause_buffer))
    /\ clause_buffer' = <<>>
    /\ sections' = re_split(full_text)
    /\ current_iso' = None
    /\ idx' = 1
    /\ pc' = "pdf_annex"
    /\ UNCHANGED <<table_locals, inputs, other_calls, strategy, result, full_text, lines, current_clause>>

\* one iteration of the section loop (pass 2), for sections[idx]
PdfAnnexSection ==
    /\ pc = "pdf_annex"
    /\ LET section == sections[idx]
       IN  IF is_annex_marker(strip(section))
           THEN /\ current_iso' = strip(section)
                /\ UNCHANGED accs
           ELSE /\ current_iso' = current_iso
                /\ IF current_iso # None /\ strip(section) # <<>>
                   THEN SetAcc(scan_section(Acc, section, current_iso))
                   ELSE UNCHANGED accs
    /\ pc' = IF idx = Len(sections) THEN "pdf_annex_end" ELSE pc
    /\ idx' = idx + 1
    /\ UNCHANGED <<table_locals, inputs, other_calls, strategy, result, full_text, lines, sections,
                   current_clause, clause_buffer>>

\* the set-up of the line-by-line fallback
PdfAnnexEnd ==
    /\ pc = "pdf_annex_end"
    /\ current_iso' = None
    /\ idx' = 1
    /\ pc' = "pdf_lines"
    /\ UNCHANGED <<table_locals, inputs, other_calls, strategy, result, accs, full_text, lines, sections,
                   current_clause, clause_buffer>>

\* one iteration of the fallback loop, for the line lines[idx]
PdfFallbackLine ==
    /\ pc = "pdf_lines"
    /\ LET line == lines[idx]
           g3 == iso_start(line)
       IN  IF g3 # 0
           THEN /\ current_iso' = iso_of(line)
                /\ SetAcc(add_reqs(Acc,
                       findall("BSI_REQ", SubSeq(line, g3, Len(line))),
                       iso_of(line)))
           ELSE /\ current_iso' = current_iso
                /\ IF current_iso # None
                   THEN SetAcc(add_reqs(Acc, findall("BSI_REQ", line), current_iso))
                   ELSE UNCHANGED accs
    /\ pc' = IF idx = Len(lines) THEN "pdf_return" ELSE pc
    /\ idx' = idx + 1
    /\ UNCHANGED <<table_locals, inputs, other_calls, strategy, result, full_text, lines, sections,
                   current_clause, clause_buffer>>

\* the dict parse_bsi_zuordnung_pdf returns
PdfReturn ==
    /\ pc = "pdf_return"
    /\ result' = [success |-> TRUE, controls |-> controls, mappings |-> mappings,
                  raw_text |-> SubSeq(full_text, 1, Min(RAW_TEXT_LIMIT, Len(full_text)))]
    /\ pc' = "done"
    /\ UNCHANGED <<inputs, other_calls, strategy, accs, pdf_locals, idx, table_locals>>

\* ------------------------------------------------------------------------
\* parse_excel
\* ------------------------------------------------------------------------

sheet_names == [k \in 1..Len(content.sheets) |-> content.sheets[k].name]

\* Python truthiness of a column role: neither None nor ""
truthy(col) == col # None /\ col # <<>>

\* the locals of the call; pd.ExcelFile raises on bytes that are no workbook
ExcelOpen ==
    /\ pc = "open" /\ strategy = <<"e","x","c","e","l">>
    /\ SetAcc(EmptyAcc)
    /\ IF content.kind = "xlsx"
       THEN /\ target_sheets' = target_sheet_indices(sheet_names)
            /\ sheet_i' = 1
            /\ pc' = "xls_sheet"
            /\ result' = result
       ELSE /\ Raise(S_bad_file)
            /\ UNCHANGED <<target_sheets, sheet_i>>
    /\ UNCHANGED <<inputs, other_calls, strategy, pdf_locals, idx,
                   df_columns, df_rows, col_map, iso_col, target_col>>

\* the step to the next sheet of target_sheets, or to the return
NextSheet ==
    /\ sheet_i' = sheet_i + 1
    /\ pc' = IF sheet_i = Len(target_sheets) THEN "xls_return" ELSE "xls_sheet"

\* the head of the sheet loop: the raw read, header discovery, the read with
\* that header, the renaming of repeated columns and role inference
ExcelSheet ==
    /\ pc = "xls_sheet"
    /\ LET sheet == content.sheets[target_sheets[sheet_i]]
           df_raw == sheet.rows
           header_row == find_header_row(df_raw)
           cols == dedup_columns(pandas_columns(df_raw[header_row + 1]))
           data == SubSeq(df_raw, header_row + 2, Len(df_raw))
       IN  IF ~sheet.readable
           THEN /\ Raise(S_bad_file)
                /\ UNCHANGED <<sheet_i, df_columns, df_rows, col_map, idx>>
           ELSE IF Len(df_raw) < MIN_SHEET_ROWS \/ header_row = NoRow
           THEN /\ NextSheet
                /\ UNCHANGED <<result, df_columns, df_rows, col_map, idx>>
           ELSE /\ df_columns' = cols
                /\ df_rows' = data
                /\ col_map' = detect_columns(cols)
                /\ idx' = 1
                /\ result' = result
                /\ IF detect_columns(cols) = NoRoles \/ Len(data) = 0
                   THEN NextSheet
                   ELSE pc' = "xls_row" /\ sheet_i' = sheet_i
    /\ UNCHANGED <<inputs, other_calls, strategy, accs, pdf_locals, target_sheets,
                   iso_col, target_col>>

\* one iteration of the row loop, for df_rows[idx]
ExcelRow ==
    /\ pc = "xls_row"
    /\ LET row == df_rows[idx]
           ref_val == safe_str(df_columns, row, col_map.ref)
           iso_val == safe_str(df_columns, row, col_map.iso)
           title_val == IF truthy(col_map.title)
                        THEN safe_str(df_columns, row, col_map.title) ELSE <<>>
           desc_val == IF truthy(col_map.description)
                       THEN safe_str(df_columns, row, col_map.description) ELSE <<>>
       IN  IF ref_val = <<>> \/ ref_val = S_nan
           THEN UNCHANGED accs
           ELSE SetAcc(excel_row(Acc, ref_val, iso_val, title_val, desc_val, doc_type))
    /\ IF idx = Len(df_rows)
       THEN NextSheet
       ELSE pc' = pc /\ sheet_i' = sheet_i
    /\ idx' = idx + 1
    /\ UNCHANGED <<inputs, other_calls, strategy, result, pdf_locals, target_sheets,
                   df_columns, df_rows, col_map, iso_col, target_col>>

S_Parsed_sp == <<"P","a","r","s","e","d"," ">>

\* the dict parse_excel returns
ExcelReturn ==
    /\ pc = "xls_return"
    /\ result' = [success |-> TRUE, controls |-> controls, mappings |-> mappings,
                  raw_text |-> S_Parsed_sp \o int_str(Len(sheet_names))
                               \o <<" ","s","h","e","e","t","s",","," ">> \o int_str(Len(controls))
                               \o <<" ","c","o","n","t","r","o","l","s",","," ">> \o int_str(Len(mappings))
                               \o <<" ","m","a","p","p","i","n","g","s">>]
    /\ pc' = "done"
    /\ UNCHANGED <<inputs, other_calls, strategy, accs, pdf_locals, idx, table_locals>>

NextExcel == ExcelOpen \/ ExcelSheet \/ ExcelRow \/ ExcelReturn

\* ------------------------------------------------------------------------
\* parse_csv
\* ------------------------------------------------------------------------

\* pd.read_csv (which raises on bytes that are no table), the locals of the
\* call and the column loop
CsvOpen ==
    /\ pc = "open" /\ strategy = <<"c","s","v">>
    /\ IF content.kind = "csv"
       THEN LET roles == csv_roles(content.columns, 1, None, None)
            IN  /\ df_columns' = content.columns
                /\ df_rows' = content.rows
                /\ iso_col' = roles.iso_col
                /\ target_col' = roles.target_col
                /\ SetAcc(EmptyAcc)
                /\ idx' = 1
                /\ pc' = IF /\ truthy(roles.iso_col) /\ truthy(roles.target_col)
                            /\ Len(content.rows) > 0
                         THEN "csv_row" ELSE "csv_return"
                /\ result' = result
       ELSE /\ Raise(S_bad_file)
            /\ UNCHANGED <<df_columns, df_rows, iso_col, target_col, accs, idx>>
    /\ UNCHANGED <<inputs, other_calls, strategy, pdf_locals, target_sheets, sheet_i, col_map>>

\* one iteration of the row loop, for df_rows[idx]
CsvRow ==
    /\ pc = "csv_row"
    /\ SetAcc(csv_row(Acc, csv_cell(df_columns, df_rows[idx], iso_col),
                      csv_cell(df_columns, df_rows[idx], target_col)))
    /\ pc' = IF idx = Len(df_rows) THEN "csv_return" ELSE pc
    /\ idx' = idx + 1
    /\ UNCHANGED <<inputs, other_calls, strategy, result, pdf_locals, table_locals>>

\* the dict parse_csv returns
CsvReturn ==
    /\ pc = "csv_return"
    /\ result' = [success |-> TRUE, controls |-> controls, mappings |-> mappings,
                  raw_text |-> S_Parsed_sp \o int_str(Len(df_rows))
                               \o <<" ","r","o","w","s",","," ","c","o","l","u","m","n","s",":"," ">> \o list_repr(df_columns)]
    /\ pc' = "done"
    /\ UNCHANGED <<inputs, other_calls, strategy, accs, pdf_locals, idx, table_locals>>

NextCsv == CsvOpen \/ CsvRow \/ CsvReturn

\* ------------------------------------------------------------------------
\* One call of parse_uploaded_bytes
\* ------------------------------------------------------------------------

NextPdf ==
    \/ PdfOpen \/ PdfPreseed \/ PdfClauseLine \/ PdfClauseEnd
    \/ PdfAnnexSection \/ PdfAnnexEnd \/ PdfFallbackLine \/ PdfReturn

Next == Dispatch \/ NextPdf \/ NextExcel \/ NextCsv

Spec == Init /\ [][Next]_vars

\* ------------------------------------------------------------------------
\* Properties of the returned result
\* ------------------------------------------------------------------------

\* the call has returned a successful result
Succeeded == pc = "done" /\ result.success

\* the call has returned the successful result of the named strategy
SucceededWith(name) == Succeeded /\ strategy = name

\* no two elements of the sequence s agree on key(_)
Distinct(s, key(_)) ==
    \A i, j \in 1..Len(s) : key(s[i]) = key(s[j]) => i = j

control_id_of(c) == c.control_id

pair_of(m) == <<m.source, m.target>>

\* C1: dedup invariant.  In the result of every strategy no two controls
\* have the same control_id and no two mappings have the same ordered
\* (source, target) pair.
C1_DedupInvariant ==
    Succeeded =>
        /\ Distinct(result.controls, control_id_of)
        /\ Distinct(result.mappings, pair_of)

\* C2: registration invariant.  In every successful result, for every
\* mapping there is a control of the same result whose control_id is the
\* target of the mapping.
C2_RegistrationInvariant ==
    Succeeded =>
        \A i \in 1..Len(result.mappings) :
            has_control(result.controls, result.mappings[i].target)

\* C2 happens: a spreadsheet call returned two mappings onto registered
\* controls
C2_Witness ==
    /\ SucceededWith(<<"e","x","c","e","l">>)
    /\ Len(result.mappings) >= 2
    /\ Len(result.controls) >= 1

\* a step that ends the call from inside a strategy other than by the
\* return statement of the strategy: an exception reaches the dispatcher
StrategyRaises ==
    /\ pc \notin {"call", "done", "pdf_return", "xls_return", "csv_return"}
    /\ pc' = "done"

\* the statements a call that has not returned can be at: the suffix tests,
\* the first statement of the selected strategy, or a statement inside it
AtStatement ==
    \/ pc = "call"
    \/ pc = "open" /\ strategy \in {<<"p","d","f">>, <<"e","x","c","e","l">>, <<"c","s","v">>}
    \/ pc \in {"pdf_preseed", "pdf_clause", "pdf_clause_end", "pdf_annex",
               "pdf_annex_end", "pdf_lines", "pdf_return"}
    \/ pc \in {"xls_sheet", "xls_row", "xls_return"}
    \/ pc \in {"csv_row", "csv_return"}

\* C3: parse_uploaded_bytes never raises.  A call that has not returned is
\* at a statement it can execute, a finished call has returned a dict with
\* a success flag, and when the selected strategy raises the dict is
\* exactly {success: False, error: <message>, raw_text: ""}, with no
\* controls and no mappings.
C3_NeverRaises ==
    /\ [](pc # "done" => AtStatement)
    /\ [](pc = "done" => result # Pending /\ "success" \in DOMAIN result)
    /\ [][StrategyRaises =>
            result' = [success |-> FALSE, error |-> result'.error,
                       raw_text |-> <<>>]]_vars

\* C3 happens: the second sheet of a workbook cannot be read after the
\* first one has yielded controls, and the call returns the error dict
C3_Witness ==
    /\ pc = "done"
    /\ strategy = <<"e","x","c","e","l">>
    /\ result = [success |-> FALSE, error |-> S_bad_file, raw_text |-> <<>>]
    /\ Len(controls) > 0

\* the part of a file name from its last dot on, or "" without a dot
RECURSIVE extension_from(_, _)
extension_from(fname, i) ==
    IF i = 0 THEN <<>>
    ELSE IF fname[i] = "." THEN SubSeq(fname, i, Len(fname))
    ELSE extension_from(fname, i - 1)

extension(fname) == extension_from(fname, Len(fname))

\* the strategy each extension stands for
strategy_of(ext) ==
    CASE ext = <<".","p","d","f">> -> <<"p","d","f">>
      [] ext \in {<<".","x","l","s","x">>, <<".","x","l","s">>} -> <<"e","x","c","e","l">>
      [] ext = <<".","c","s","v">> -> <<"c","s","v">>
      [] OTHER -> None

\* C4: dispatch is a function of the case-insensitive suffix of the file
\* name only.  .pdf selects the PDF strategy, .xlsx and .xls the spreadsheet
\* strategy, .csv the CSV strategy; any other name selects no strategy and
\* the call returns at once success = False with an error that names the
\* rejected (lower-cased) file name, extension included.  doc_type plays no
\* part.
C4_DispatchBySuffix ==
    pc # "call" =>
        LET ext == extension(lower(filename))
        IN  /\ strategy = strategy_of(ext)
            /\ strategy_of(ext) = None =>
                 /\ pc = "done"
                 /\ result = [success |-> FALSE,
                              error |-> S_Unsupported \o lower(filename)]
                 /\ endswith(result.error, ext)

\* C4 happens: a name with .pdf inside but another suffix is rejected
C4_Witness ==
    /\ pc = "done"
    /\ filename = <<"e",".","p","d","f",".","b","a","k">>
    /\ strategy = None
    /\ ~result.success

\* a page text without any identifier of the target catalog
no_target_identifier(text) ==
    /\ findall("BSI_REQ", text) = <<>>
    /\ findall("BSI_MODULE", text) = <<>>
    /\ findall("BSI_STD", text) = <<>>
    /\ ~has_elem_gef(text)

\* a sheet parse_excel skips: fewer than 3 rows, no header row, or no roles
sheet_is_skipped(sheet) ==
    \/ Len(sheet.rows) < MIN_SHEET_ROWS
    \/ find_header_row(sheet.rows) = NoRow
    \/ detect_columns(dedup_columns(pandas_columns(
           sheet.rows[find_header_row(sheet.rows) + 1]))) = NoRoles

\* the input of the call holds no correspondences: a PDF whose pages yield
\* no text or text without target identifiers, a workbook whose sheets are
\* all skipped, a CSV table without a source or without a target column
NoCorrespondences ==
    \/ /\ strategy = <<"p","d","f">> /\ content.kind = "pdf"
       /\ \A k \in 1..Len(content.pages) :
              no_target_identifier(page_text(content.pages[k]))
    \/ /\ strategy = <<"e","x","c","e","l">> /\ content.kind = "xlsx"
       /\ \A k \in 1..Len(content.sheets) :
              content.sheets[k].readable /\ sheet_is_skipped(content.sheets[k])
    \/ /\ strategy = <<"c","s","v">> /\ content.kind = "csv"
       /\ LET roles == csv_roles(content.columns, 1, None, None)
          IN  roles.iso_col = None \/ roles.target_col = None

\* the controls of the five standard references, in the order of the table
StandardControls ==
    [k \in 1..Len(BSI_STD_TITLES) |->
        [control_id |-> BSI_STD_TITLES[k].id,
         title |-> BSI_STD_TITLES[k].title,
         category |-> <<"B","S","I","-","S","t","a","n","d","a","r","d">>]]

\* C5, as stated: an input without correspondences yields success with an
\* empty controls sequence and an empty mappings sequence, in every
\* strategy.
C5_EmptySequences ==
    (pc = "done" /\ NoCorrespondences) =>
        /\ result.success
        /\ result.controls = <<>>
        /\ result.mappings = <<>>

\* C5, corrected: an input without correspondences yields success with an
\* empty mappings sequence; the controls sequence is empty for spreadsheets
\* and CSV tables, and holds exactly the five standard-reference controls
\* for a PDF.
C5_NoCorrespondences ==
    (pc = "done" /\ NoCorrespondences) =>
        /\ result.success
        /\ result.mappings = <<>>
        /\ result.controls =
               IF strategy = <<"p","d","f">> THEN StandardControls ELSE <<>>

\* C5 happens: a PDF with a page of text that names no target identifier
\* has been parsed
C5_Witness ==
    /\ pc = "done" /\ NoCorrespondences
    /\ strategy = <<"p","d","f">>
    /\ \E k \in 1..Len(content.pages) : content.pages[k] # None
    /\ Len(result.controls) = 5

\* the program counters of the PDF strategy after the pre-creation loop
AfterPreseed ==
    {"pdf_clause", "pdf_clause_end", "pdf_annex", "pdf_annex_end",
     "pdf_lines", "pdf_return"}

\* the sequence ctrls holds exactly one control with the identifier, title
\* and category of std
exactly_one(ctrls, std) ==
    /\ Cardinality({j \in 1..Len(ctrls) :
                       ctrls[j].control_id = std.control_id}) = 1
    /\ \E j \in 1..Len(ctrls) : ctrls[j] = std

\* C6: every successful PDF result holds exactly one control for each of
\* the five standard-reference identifiers, with the category BSI-Standard
\* and the fixed title, whatever the text mentions; from the pre-creation
\* loop on no pass changes them.
C6_StandardControls ==
    /\ pc \in AfterPreseed =>
           \A k \in 1..Len(StandardControls) :
               exactly_one(controls, StandardControls[k])
    /\ SucceededWith(<<"p","d","f">>) =>
           /\ Len(StandardControls) = 5
           /\ \A k \in 1..Len(StandardControls) :
                  exactly_one(result.controls, StandardControls[k])

\* C6 happens: a PDF whose text refers to a standard has been parsed, and a
\* mapping onto the pre-created control was added by a later pass
C6_Witness ==
    /\ SucceededWith(<<"p","d","f">>)
    /\ \E i \in 1..Len(result.mappings) :
           result.mappings[i].target \in BSI_STD_IDS
    /\ \E i \in 1..Len(result.controls) :
           result.controls[i].control_id \notin BSI_STD_IDS

\* ------------------------------------------------------------------------
\* Repeated calls on the same upload
\* ------------------------------------------------------------------------

\* upload_document calls parse_uploaded_bytes again with the same content,
\* filename and doc_type; the dict of the previous call is kept for
\* comparison, and nothing of the previous call is cleared
Reinvoke ==
    /\ pc = "done"
    /\ pc' = "call"
    /\ UNCHANGED <<inputs, other_calls, strategy, result, accs, pdf_locals, idx, table_locals>>

NextRerun == Next \/ Reinvoke

SpecRerun == Init /\ [][NextRerun]_vars

\* C7: determinism.  A call on the same content, filename and doc_type as
\* the previous call returns the dict the previous call returned: the same
\* success flag, the same controls and mappings in the same order, the same
\* raw_text.
C7_SameResult ==
    [][(pc # "done" /\ pc' = "done" /\ result # Pending) => result' = result]_vars

\* C7 happens: a second PDF call is about to return the controls and
\* mappings which the first call returned
C7_Witness ==
    /\ pc = "pdf_return"
    /\ result # Pending
    /\ result.success
    /\ Len(result.mappings) >= 2
    /\ controls = result.controls
    /\ mappings = result.mappings

\* ------------------------------------------------------------------------
\* Properties of spreadsheet rows
\* ------------------------------------------------------------------------

\* the cells of a row under the reference and the cross-reference column
ref_cell(row) == row_get(df_columns, row, col_map.ref)

cross_ref_cell(row) == row_get(df_columns, row, col_map.iso)

\* a cross-reference cell that stands for "no mapping": empty, or "-",
\* "n/a", "nan" or "" after trimming
is_sentinel(cell) ==
    \/ cell = NaN
    \/ cell = None
    \/ strip(cell) \in {<<"-">>, <<"n","/","a">>, <<"n","a","n">>, <<>>}

\* C8: in spreadsheet extraction a row whose cross-reference cell is "-",
\* "n/a", "nan" or empty after trimming adds no mapping, whatever its
\* reference value.
C8_SentinelAddsNoMapping ==
    [][(pc = "xls_row" /\ is_sentinel(cross_ref_cell(df_rows[idx])))
          => mappings' = mappings]_vars

\* C8 happens: the row before the cursor has a reference and "n/a" as its
\* cross-reference; its control is registered next to the mapping of an
\* earlier row, and no mapping has it as target
C8_Witness ==
    /\ strategy = <<"e","x","c","e","l">>
    /\ pc \in {"xls_sheet", "xls_return"}
    /\ idx > 1 /\ idx - 1 <= Len(df_rows)
    /\ cross_ref_cell(df_rows[idx - 1]) = <<"n","/","a">>
    /\ has_control(controls, ref_cell(df_rows[idx - 1]))
    /\ Len(mappings) > 0
    /\ \A i \in 1..Len(mappings) :
           mappings[i].target # ref_cell(df_rows[idx - 1])

\* ------------------------------------------------------------------------
\* _extract_iso_refs on its own
\* ------------------------------------------------------------------------

\* the most references of a cross-reference cell
MaxRefs == 2

\* what a cross-reference cell lists: Annex references, clause references
\* (one contained in an Annex reference, one contained in another clause
\* reference) and the signs for "no mapping"
RefTokens == {<<"A",".","5",".","1","5">>, <<"A",".","8",".","3">>, <<"4",".","1">>, <<"1","4",".","1">>, <<"5",".","1","5">>, <<"-">>, <<"n","/","a">>}

\* the cell texts: up to MaxRefs tokens, separated by ", "
CellTexts == {join(<<","," ">>, ts) : ts \in SeqsUpTo(RefTokens, MaxRefs)}

InitRefs ==
    /\ filename = <<>>
    /\ doc_type \in DocTypes
    /\ content \in {[kind |-> "cell", text |-> txt] : txt \in CellTexts}
    /\ pc = "refs_call"
    /\ strategy = None
    /\ result = Pending
    /\ controls = <<>> /\ mappings = <<>>
    /\ seen_bsi = {} /\ seen_mappings = {}
    /\ full_text = <<>> /\ lines = <<>> /\ sections = <<>> /\ idx = 0
    /\ current_clause = None /\ clause_buffer = <<>> /\ current_iso = None
    /\ target_sheets = <<>> /\ sheet_i = 0
    /\ df_columns = <<>> /\ df_rows = <<>> /\ col_map = NoRoles
    /\ iso_col = None /\ target_col = None
    /\ suspended = NoCall /\ alone = Pending
    /\ db = EmptyTables

\* one call _extract_iso_refs(raw) on the text of the cell
ExtractIsoRefs ==
    /\ pc = "refs_call"
    /\ result' = [refs |-> extract_iso_refs(content.text)]
    /\ pc' = "refs_done"
    /\ UNCHANGED <<inputs, other_calls, strategy, accs, pdf_locals, idx, table_locals>>

NextRefs == ExtractIsoRefs

SpecRefs == InitRefs /\ [][NextRefs]_vars

\* x is an element of the sequence s
Elem(x, s) == \E k \in 1..Len(s) : s[k] = x

\* C9: for any cross-reference cell text, _extract_iso_refs returns every
\* Annex-style match, and a bare clause match is returned if and only if it
\* is not a substring of an Annex-style match of the cell.
C9_ClauseUnlessInsideAnnex ==
    pc = "refs_done" =>
        LET annexes == findall("ISO_ANNEX", content.text)
            clauses == findall("ISO_CLAUSE", content.text)
        IN  /\ \A i \in 1..Len(annexes) : Elem(annexes[i], result.refs)
            /\ \A j \in 1..Len(clauses) :
                   Elem(clauses[j], result.refs)
                       <=> ~\E i \in 1..Len(annexes) : In(clauses[j], annexes[i])

\* ------------------------------------------------------------------------
\* Properties of the Annex section pass
\* ------------------------------------------------------------------------

\* id has the shape of a module identifier (the whole of it matches
\* _BSI_MODULE_PATTERN)
is_module_id(id) == BSI_MODULE_PATTERN(id, 1) = Len(id) + 1

\* body holds an occurrence of the module identifier x that is not the
\* beginning of a requirement identifier x.A<n>
has_free_occurrence(body, x) ==
    \E i \in 1..Len(body) :
        /\ HasAt(body, i, x)
        /\ WordBoundary(body, i)
        /\ ReqTail(body, i + Len(x)) = 0

\* C10: in the Annex section pass a requirement identifier is never also
\* counted as its own module.  A control with a module identifier X is
\* registered only when the body of some section holds an occurrence of X
\* that is not the beginning of a requirement identifier X.A<n>.
C10_RequirementIsNoModule ==
    SucceededWith(<<"p","d","f">>) =>
        \A k \in 1..Len(result.controls) :
            is_module_id(result.controls[k].control_id) =>
                \E j \in 1..Len(sections) :
                    has_free_occurrence(sections[j],
                                        result.controls[k].control_id)

\* ------------------------------------------------------------------------
\* Properties of the clause pass
\* ------------------------------------------------------------------------

\* the least element of a non-empty set of numbers
Least(S) == CHOOSE x \in S : \A y \in S : x <= y

\* the stripped line k of the text
stripped_line(k) == strip(lines[k])

\* line k is a clause header: a dotted number, white space, a capital
is_clause_header(k) == CLAUSE_START(stripped_line(k)) # 0

\* the number of the clause header at line k
clause_number(k) ==
    SubSeq(stripped_line(k), 1, CLAUSE_START(stripped_line(k)) - 1)

\* line k is the header of a sub-clause: its number has a dot
is_sub_clause_header(k) ==
    is_clause_header(k) /\ ISO_CLAUSE_PATTERN(clause_number(k), 1) # 0

\* the line at which the clause pass ends: the first one that begins with
\* "A.", or the position after the last line
clause_pass_end ==
    LET ends == {k \in 1..Len(lines) : startswith(stripped_line(k), <<"A",".">>)}
    IN  IF ends = {} THEN Len(lines) + 1 ELSE Least(ends)

\* the first clause header after line i, or the end of the clause pass
next_header(i) ==
    LET hs == {k \in (i + 1)..(clause_pass_end - 1) : is_clause_header(k)}
    IN  IF hs = {} THEN clause_pass_end ELSE Least(hs)

\* the standard-reference identifiers a line mentions
mentions(line) ==
    {<<"B","S","I","-","S","t","d","-","2","0","0","-">> \o <<m[Len(m)]>> :
        m \in {findall("BSI_STD", line)[k] :
                  k \in 1..Len(findall("BSI_STD", line))}}
    \cup (IF has_elem_gef(line) THEN {<<"B","S","I","-","E","l","e","m","G","e","f">>} ELSE {})

\* C11: in the PDF clause pass, for every sub-clause header line scanned
\* before the pass ends, each mention of "BSI-Standard 200-k" or of the
\* elementary threats in the header line or in the lines up to the next
\* clause header yields the mapping (clause number, identifier) in the
\* result.
C11_ClauseMentionsAreMapped ==
    SucceededWith(<<"p","d","f">>) =>
        \A i \in 1..(clause_pass_end - 1) :
            is_sub_clause_header(i) =>
                \A j \in i..(next_header(i) - 1) :
                    \A id \in mentions(stripped_line(j)) :
                        Elem([source |-> clause_number(i), target |-> id],
                             result.mappings)

\* C11 happens: a sub-clause header that names a standard is followed by a
\* line that names the elementary threats, and both are mapped
C11_Witness ==
    /\ SucceededWith(<<"p","d","f">>)
    /\ Len(lines) = 2
    /\ is_sub_clause_header(1)
    /\ mentions(stripped_line(1)) = {<<"B","S","I","-","S","t","d","-","2","0","0","-","2">>}
    /\ mentions(stripped_line(2)) = {<<"B","S","I","-","E","l","e","m","G","e","f">>}
    /\ Len(result.mappings) = 2

\* ------------------------------------------------------------------------
\* Properties of header discovery and role inference
\* ------------------------------------------------------------------------

\* the sheet the sheet loop is at
current_sheet == content.sheets[target_sheets[sheet_i]]

\* a cell holds at least one of the keywords
has_keyword(cell) ==
    /\ cell # NaN
    /\ \E j \in 1..Len(KEYWORDS) : In(KEYWORDS[j], lower(strip(cell)))

\* the number of cells of a row that hold a keyword, each cell counted once
keyword_cells(row) == Cardinality({k \in 1..Len(row) : has_keyword(row[k])})

\* the rows header discovery looks at
scanned_rows(rows) == 1..Min(MAX_HEADER_ROWS, Len(rows))

\* the best score among the scanned rows, 0 when there is none
best_keyword_cells(rows) ==
    IF scanned_rows(rows) = {} THEN 0
    ELSE LET scores == {keyword_cells(rows[k]) : k \in scanned_rows(rows)}
         IN  CHOOSE x \in scores : \A y \in scores : y <= x

\* C12: header discovery scores each of the first (at most) 5 rows by the
\* number of its non-empty cells that hold one of the keywords, a cell
\* counting once; a sheet whose best score is below 2 is skipped with no
\* control, no mapping and no error, and otherwise a highest-scoring row is
\* the header.
C12_HeaderScoreCountsCells ==
    [][(pc = "xls_sheet" /\ current_sheet.readable) =>
          LET rows == current_sheet.rows
              best == best_keyword_cells(rows)
          IN  /\ best < MIN_HEADER_SCORE =>
                    /\ UNCHANGED accs
                    /\ pc' \in {"xls_sheet", "xls_return"}
              /\ pc' = "xls_row" =>
                    \E h \in scanned_rows(rows) :
                        /\ keyword_cells(rows[h]) = best
                        /\ df_rows' = SubSeq(rows, h + 1, Len(rows))]_vars

\* ------------------------------------------------------------------------
\* _detect_columns on its own
\* ------------------------------------------------------------------------

\* the most columns of a header
MaxCols == 4

\* the column names of a header, as parse_excel hands them over (stripped
\* and made unique)
ColumnNames == {<<"R","e","f">>, <<"R","e","f","_","1">>, <<"T","i","t","l","e">>, <<"B","a","s","i","c"," ","C","r","i","t","e","r","i","a">>, <<"I","S","O"," ","2","7","0","0","1">>, <<"N","o","t","e","s">>}

\* the headers: up to MaxCols names, none twice
Headers ==
    {cols \in SeqsUpTo(ColumnNames, MaxCols) :
        \A i, j \in 1..Len(cols) : cols[i] = cols[j] => i = j}

InitColumns ==
    /\ filename = <<>>
    /\ doc_type \in DocTypes
    /\ content \in {[kind |-> "columns", names |-> cols] : cols \in Headers}
    /\ pc = "cols_call"
    /\ strategy = None
    /\ result = Pending
    /\ controls = <<>> /\ mappings = <<>>
    /\ seen_bsi = {} /\ seen_mappings = {}
    /\ full_text = <<>> /\ lines = <<>> /\ sections = <<>> /\ idx = 0
    /\ current_clause = None /\ clause_buffer = <<>> /\ current_iso = None
    /\ target_sheets = <<>> /\ sheet_i = 0
    /\ df_columns = <<>> /\ df_rows = <<>> /\ col_map = NoRoles
    /\ iso_col = None /\ target_col = None
    /\ suspended = NoCall /\ alone = Pending
    /\ db = EmptyTables

\* one call _detect_columns(columns, doc_type) on the names of the header
DetectColumns ==
    /\ pc = "cols_call"
    /\ result' = [roles |-> detect_columns(content.names)]
    /\ pc' = "cols_done"
    /\ UNCHANGED <<inputs, other_calls, strategy, accs, pdf_locals, idx, table_locals>>

NextColumns == DetectColumns

SpecColumns == InitColumns /\ [][NextColumns]_vars

\* the name contains "ref" but not "iso"
ref_like(col) == In(<<"r","e","f">>, lower(col)) /\ ~In(<<"i","s","o">>, lower(col))

\* the name contains "iso" or "27001"
iso_like(col) == In(<<"i","s","o">>, lower(col)) \/ In(<<"2","7","0","0","1">>, lower(col))

\* the positions of the ref-like columns, in column order
ref_like_positions(columns) == {k \in 1..Len(columns) : ref_like(columns[k])}

\* the roles were resolved from the names, not from the positions
resolved_by_name(columns) ==
    LET res == detect_loop(columns, 1, NoRoles, 0)
    IN  res.ref # None /\ res.iso # None

\* C13: when the roles are resolved from the column names, the first
\* ref-like column (name contains "ref" but not "iso") is the primary
\* reference, a second ref-like column is the cross-reference column, and a
\* column matching "iso"/"27001" is the cross-reference column only when
\* there is no second ref-like column, whatever the column order; the
\* columns Ref, Title, Basic Criteria, Ref_1 resolve to ref = Ref,
\* title = Title, description = Basic Criteria, cross-reference = Ref_1.
C13_DualRefBeforeIso ==
    pc = "cols_done" =>
        LET columns == content.names
            refs == ref_like_positions(columns)
            first == Least(refs)
            second == Least(refs \ {first})
        IN  /\ resolved_by_name(columns) =>
                /\ result.roles.ref = columns[first]
                /\ Cardinality(refs) >= 2 => result.roles.iso = columns[second]
                /\ iso_like(result.roles.iso) => Cardinality(refs) < 2
            /\ columns = <<<<"R","e","f">>, <<"T","i","t","l","e">>, <<"B","a","s","i","c"," ","C","r","i","t","e","r","i","a">>, <<"R","e","f","_","1">>>> =>
                result.roles = [ref |-> <<"R","e","f">>, title |-> <<"T","i","t","l","e">>,
                                description |-> <<"B","a","s","i","c"," ","C","r","i","t","e","r","i","a">>, iso |-> <<"R","e","f","_","1">>]

\* ------------------------------------------------------------------------
\* Properties of parse_csv
\* ------------------------------------------------------------------------

\* parse_csv has read the table and inferred the roles
csv_roles_inferred == strategy = <<"c","s","v">> /\ pc \in {"csv_row", "csv_return"}

\* the earliest column, in column order, whose name satisfies test, or None
earliest_column(columns, test(_)) ==
    LET hits == {k \in 1..Len(columns) : test(columns[k])}
    IN  IF hits = {} THEN None ELSE columns[Least(hits)]

\* C14: in CSV role inference the first matching column wins per role: the
\* source column is the earliest column whose name contains ISO, 27001 or
\* SOURCE, and the target column is the earliest column whose name contains
\* BSI, C5 or TARGET.
C14_FirstMatchingColumnWins ==
    csv_roles_inferred =>
        /\ iso_col = earliest_column(df_columns, is_source_name)
        /\ target_col = earliest_column(df_columns, is_target_name)

\* the stripped cells of row k in the resolved source and target columns
source_cell(k) == csv_cell(df_columns, df_rows[k], iso_col)
target_cell(k) == csv_cell(df_columns, df_rows[k], target_col)

\* row k has a source and a target cell that are non-empty and not "nan"
qualifying(k) ==
    /\ source_cell(k) # <<>> /\ source_cell(k) # <<"n","a","n">>
    /\ target_cell(k) # <<>> /\ target_cell(k) # <<"n","a","n">>

qualifying_rows == {k \in 1..Len(df_rows) : qualifying(k)}

\* parse_csv returned with both roles resolved
csv_resolved ==
    /\ SucceededWith(<<"c","s","v">>)
    /\ iso_col # None /\ target_col # None

\* C15: in CSV extraction with both roles resolved, the mappings are the
\* pairs (source, target) of the qualifying rows (both cells non-empty and
\* not the literal "nan"), one per row in row order, a row with an empty or
\* "nan" cell contributing nothing; the controls are one control per
\* distinct target value of a qualifying row and no other control.
C15_QualifyingRowsContribute ==
    csv_resolved =>
        /\ Len(result.mappings) = Cardinality(qualifying_rows)
        /\ \A k \in qualifying_rows :
               result.mappings[Cardinality({j \in qualifying_rows : j <= k})]
                   = [source |-> source_cell(k), target |-> target_cell(k)]
        /\ {result.controls[i].control_id : i \in 1..Len(result.controls)}
               = {target_cell(k) : k \in qualifying_rows}
        /\ Distinct(result.controls, control_id_of)
        /\ \A i \in 1..Len(result.controls) :
               result.controls[i]
                   = [control_id |-> result.controls[i].control_id,
                      title |-> <<"C","o","n","t","r","o","l"," ">> \o result.controls[i].control_id,
                      category |-> <<>>]

\* a table with a qualifying row and a row whose source cell reads "nan"
C15_Witness ==
    /\ csv_resolved
    /\ qualifying_rows # {}
    /\ \E k \in 1..Len(df_rows) : source_cell(k) = <<"n","a","n">> /\ target_cell(k) # <<>>

\* ------------------------------------------------------------------------
\* Properties of the returned dict
\* ------------------------------------------------------------------------

\* C16: every result returned by a strategy or by the dispatcher has a
\* raw_text of at most 10,000 characters, whatever the size of the input
\* (page text, number of sheets, number and length of CSV column names).
C16_RawTextIsBounded ==
    (pc = "done" /\ "raw_text" \in DOMAIN result) =>
        Len(result.raw_text) <= RAW_TEXT_LIMIT

\* ------------------------------------------------------------------------
\* Properties of the order of the PDF output
\* ------------------------------------------------------------------------

\* s is the beginning of t
IsPrefix(s, t) == Len(s) <= Len(t) /\ SubSeq(t, 1, Len(s)) = s

\* C17: during a PDF run the controls and mappings lists only grow by
\* appending: every step keeps the items already there, in their places,
\* and the lists returned are the lists so built, so that an item found in
\* an earlier pass precedes every item first found in a later pass.
C17_ListsOnlyGrow ==
    [][strategy = <<"p","d","f">> =>
          /\ IsPrefix(controls, controls')
          /\ IsPrefix(mappings, mappings')
          /\ (pc = "pdf_return" =>
                 result'.controls = controls /\ result'.mappings = mappings)]_vars

\* a PDF result with controls found after the pre-seed and several mappings
C17_Witness ==
    /\ SucceededWith(<<"p","d","f">>)
    /\ Len(result.controls) > Cardinality(BSI_STD_IDS)
    /\ Len(result.mappings) >= 2

\* ------------------------------------------------------------------------
\* Properties of the sheet loop of parse_excel
\* ------------------------------------------------------------------------

\* parse_excel has opened the workbook and the call has returned
workbook_done ==
    /\ pc = "done"
    /\ strategy = <<"e","x","c","e","l">>
    /\ content.kind = "xlsx"

\* C18: in spreadsheet extraction an anomaly confined to one sheet or one
\* row (a sheet failing header discovery or role inference, a sheet or cell
\* whose reading fails) never aborts the document: once the workbook is
\* open, the call returns success = true with the controls and mappings
\* extracted from the other sheets and rows.
C18_SheetAnomalyIsLocal ==
    workbook_done =>
        /\ result.success
        /\ result.controls = controls
        /\ result.mappings = mappings

\* ------------------------------------------------------------------------
\* Two calls of parse_uploaded_bytes at once
\* ------------------------------------------------------------------------

\* the arguments and locals of the running call
context ==
    [filename |-> filename, doc_type |-> doc_type, content |-> content,
     pc |-> pc, strategy |-> strategy, result |-> result,
     controls |-> controls, mappings |-> mappings,
     seen_bsi |-> seen_bsi, seen_mappings |-> seen_mappings,
     full_text |-> full_text, lines |-> lines, sections |-> sections, idx |-> idx,
     current_clause |-> current_clause, clause_buffer |-> clause_buffer,
     current_iso |-> current_iso,
     target_sheets |-> target_sheets, sheet_i |-> sheet_i,
     df_columns |-> df_columns, df_rows |-> df_rows, col_map |-> col_map,
     iso_col |-> iso_col, target_col |-> target_col]

\* a call that has not run a statement yet, on the arguments of the running
\* call
fresh_call ==
    [context EXCEPT
        !.pc = "call", !.strategy = None, !.result = Pending,
        !.controls = <<>>, !.mappings = <<>>,
        !.seen_bsi = {}, !.seen_mappings = {},
        !.full_text = <<>>, !.lines = <<>>, !.sections = <<>>, !.idx = 0,
        !.current_clause = None, !.clause_buffer = <<>>, !.current_iso = None,
        !.target_sheets = <<>>, !.sheet_i = 0,
        !.df_columns = <<>>, !.df_rows = <<>>, !.col_map = NoRoles,
        !.iso_col = None, !.target_col = None]

\* the call ctx becomes the running call
Resume(ctx) ==
    /\ filename' = ctx.filename /\ doc_type' = ctx.doc_type /\ content' = ctx.content
    /\ pc' = ctx.pc /\ strategy' = ctx.strategy /\ result' = ctx.result
    /\ controls' = ctx.controls /\ mappings' = ctx.mappings
    /\ seen_bsi' = ctx.seen_bsi /\ seen_mappings' = ctx.seen_mappings
    /\ full_text' = ctx.full_text /\ lines' = ctx.lines /\ sections' = ctx.sections
    /\ idx' = ctx.idx
    /\ current_clause' = ctx.current_clause /\ clause_buffer' = ctx.clause_buffer
    /\ current_iso' = ctx.current_iso
    /\ target_sheets' = ctx.target_sheets /\ sheet_i' = ctx.sheet_i
    /\ df_columns' = ctx.df_columns /\ df_rows' = ctx.df_rows /\ col_map' = ctx.col_map
    /\ iso_col' = ctx.iso_col /\ target_col' = ctx.target_col

\* a switch that leaves the dedup sets where they are, as if the two calls
\* had them in common
SwitchSharedSeen ==
    /\ suspended.pc # "none"
    /\ Resume([suspended EXCEPT !.seen_bsi = seen_bsi,
                                !.seen_mappings = seen_mappings])
    /\ suspended' = context
    /\ UNCHANGED <<alone, db>>

\* the scheduler takes the running call off and puts the other call on
Switch ==
    /\ suspended.pc # "none"
    /\ Resume(suspended)
    /\ suspended' = context
    /\ UNCHANGED <<alone, db>>

\* after the call has returned on its own, the same upload is sent twice at
\* once: two calls start on the same arguments
Fork ==
    /\ pc = "done" /\ alone = Pending
    /\ alone' = result
    /\ Resume(fresh_call)
    /\ suspended' = fresh_call
    /\ db' = db

\* the uploads sent twice: a PDF of two pages, a C5 workbook, a workbook
\* with a sheet that cannot be read, a CSV table, bytes that cannot be read
ConcurrentUploads == {
    <<<<"a",".","p","d","f">>, [kind |-> "pdf", pages |-> <<<<"A",".","5",".","1"," ","P","\n","I","S","M","S",".","1",".","A","3"," ","b">>, <<"6",".","2"," ","O"," ","B","S","I","-","S","t","a","n","d","a","r","d"," ","2","0","0","-","2">>>>]>>,
    <<<<"a",".","p","d","f">>, [kind |-> "pdf", pages |-> <<<<"A",".","5",".","2"," ","\n","O","P","S",".","1",".","1",".","A","2"," ","I","S","M","S",".","1",".","A","3">>, <<"t"," ","A",".","8",".","1"," ","O","R","P",".","4"," ","x">>>>]>>,
    <<<<"b",".","X","L","S","X">>, [kind |-> "xlsx", sheets |-> <<Sheet(<<"M","a","p","p","i","n","g">>,
        <<C5_TITLE_ROW, C5_HEADER_ROW,
          <<<<"O","I","S","-","0","1">>, <<"T">>, NaN, <<"A",".","5",".","1","5",","," ","A",".","8",".","3">>>>, <<<<"O","I","S","-","0","1">>, <<"T">>, NaN, <<"A",".","5",".","1">>>>>>)>>]>>,
    <<<<"b",".","x","l","s">>, [kind |-> "xlsx", sheets |-> <<
        Sheet(<<"S","h","e","e","t","1">>, <<C5_HEADER_ROW, <<<<"O","I","S","-","0","1">>, <<"T">>, NaN, <<"A",".","5",".","1">>>>,
                           <<<<"I","D","M","-","0","1">>, NaN, NaN, <<"n","/","a">>>>>>),
        [name |-> <<"S","h","e","e","t","2">>, readable |-> FALSE, rows |-> <<>>]>>]>>,
    <<<<"c",".","c","s","v">>, [kind |-> "csv", columns |-> <<<<"S","o","u","r","c","e">>, <<"T","a","r","g","e","t">>>>,
                rows |-> <<<<<<"A",".","8",".","2","4">>, <<"C","R","Y","-","0","1">>>>, <<<<"A",".","8",".","2","4">>, <<"C","R","Y","-","0","1">>>>>>]>>,
    <<<<"a",".","p","d","f">>, CORRUPT>>
}

InitConcurrent ==
    /\ \E u \in ConcurrentUploads : filename = u[1] /\ content = u[2]
    /\ doc_type \in DocTypes
    /\ pc = "call"
    /\ strategy = None
    /\ result = Pending
    /\ controls = <<>> /\ mappings = <<>>
    /\ seen_bsi = {} /\ seen_mappings = {}
    /\ full_text = <<>> /\ lines = <<>> /\ sections = <<>> /\ idx = 0
    /\ current_clause = None /\ clause_buffer = <<>> /\ current_iso = None
    /\ target_sheets = <<>> /\ sheet_i = 0
    /\ df_columns = <<>> /\ df_rows = <<>> /\ col_map = NoRoles
    /\ iso_col = None /\ target_col = None
    /\ suspended = NoCall /\ alone = Pending
    /\ db = EmptyTables

NextConcurrent == Next \/ Fork \/ Switch

SpecConcurrent == InitConcurrent /\ [][NextConcurrent]_vars

\* C19: concurrent invocations are independent.  Under any interleaving of
\* the steps of two calls on an upload, each call returns exactly the dict
\* the call on that upload returns when it runs alone.
C19_InterleavedCallsReturnTheSame ==
    (alone # Pending /\ pc = "done") => result = alone

\* a call returns mappings while the other call is between two of its
\* statements
C19_Witness ==
    /\ alone # Pending
    /\ pc = "done"
    /\ result.success
    /\ Len(result.mappings) >= 2
    /\ suspended.pc \notin {"none", "call", "open", "done"}

\* ------------------------------------------------------------------------
\* The persisted controls and mappings, and the lookup of mappings
\* ------------------------------------------------------------------------

\* the frameworks table after seed_frameworks: the framework with id k has
\* the short name FRAMEWORKS[k]
FRAMEWORKS == <<<<"I","S","O","2","7","0","0","1">>, <<"B","S","I">>, <<"C","5">>>>

\* an id that is None or 0: Python takes both as false
NoId == 0

\* select(Framework).where(Framework.id == id): the id, or NoId
framework_with_id(id) == IF id \in 1..Len(FRAMEWORKS) THEN id ELSE NoId

\* select(Framework).where(Framework.short_name == short): the id, or NoId
framework_with_short_name(short) ==
    IF \E k \in 1..Len(FRAMEWORKS) : FRAMEWORKS[k] = short
    THEN CHOOSE k \in 1..Len(FRAMEWORKS) : FRAMEWORKS[k] = short
    ELSE NoId

\* the short name import_data derives from doc_type
short_of_doc_type(dt) ==
    IF In(<<"B","S","I">>, dt) /\ ~In(<<"C","5">>, dt) THEN <<"B","S","I">>
    ELSE IF In(<<"C","5">>, dt) THEN <<"C","5">>
    ELSE <<"I","S","O","2","7","0","0","1">>

\* the frameworks of an import: [src, tgt], either of them NoId when the
\* framework is not found
import_frameworks(src_fw_id, tgt_fw_id, dt) ==
    IF src_fw_id # NoId /\ tgt_fw_id # NoId
    THEN [src |-> framework_with_id(src_fw_id), tgt |-> framework_with_id(tgt_fw_id)]
    ELSE [src |-> framework_with_short_name(<<"I","S","O","2","7","0","0","1">>),
          tgt |-> framework_with_short_name(short_of_doc_type(dt))]

\* the rows of ISO_27001_CONTROLS and of ISO_27001_CLAUSES for the
\* identifiers the requests name
ISO_27001_CONTROLS ==
    <<[id |-> <<"A",".","5",".","1">>, title |-> <<"P","o","l","i","c","i","e","s"," ","f","o","r"," ","i","n","f","o","r","m","a","t","i","o","n"," ","s","e","c","u","r","i","t","y">>]>>

ISO_27001_CLAUSES ==
    <<[id |-> <<"4",".","1">>, title |-> <<"U","n","d","e","r","s","t","a","n","d","i","n","g"," ","t","h","e"," ","o","r","g","a","n","i","z","a","t","i","o","n"," ","a","n","d"," ","i","t","s"," ","c","o","n","t","e","x","t">>]>>

\* ISO_27001_CLAUSES.get(source, f"ISO {source}")
clause_title(source) ==
    IF \E k \in 1..Len(ISO_27001_CLAUSES) : ISO_27001_CLAUSES[k].id = source
    THEN ISO_27001_CLAUSES[CHOOSE k \in 1..Len(ISO_27001_CLAUSES) :
                               ISO_27001_CLAUSES[k].id = source].title
    ELSE <<"I","S","O"," ">> \o source

\* the title of a control created as the unseen source of a mapping:
\* ingest_document looks the clause title up, import_data takes the
\* identifier
source_title(via, source) ==
    IF via = "ingest_document" THEN clause_title(source) ELSE source

\* the id of the control (control_id, framework_id) of the table, or NoId
control_row_id(tbl, cid, fw) ==
    IF \E c \in tbl : c.control_id = cid /\ c.framework_id = fw
    THEN (CHOOSE c \in tbl : c.control_id = cid /\ c.framework_id = fw).id
    ELSE NoId

\* session.add(Control(framework_id=fw, control_id=cid, title=title)): the
\* row takes the next id
add_control(tbl, fw, cid, title) ==
    tbl \cup {[id |-> Cardinality(tbl) + 1, framework_id |-> fw,
               control_id |-> cid, title |-> title]}

\* the loop of import_data and of ingest_document over the controls
RECURSIVE import_controls(_, _, _)
import_controls(d, ctrls, tgt) ==
    IF Len(ctrls) = 0 THEN d
    ELSE import_controls(
             IF control_row_id(d.controls, ctrls[1].control_id, tgt) = NoId
             THEN [d EXCEPT !.controls =
                      add_control(@, tgt, ctrls[1].control_id, ctrls[1].title)]
             ELSE d,
             Tail(ctrls), tgt)

\* the mapping rows joining only the source side of a mapping
one_way_neighbours(d, source) ==
    {c \in d.controls :
        /\ c.id # source.id
        /\ \E m \in d.mappings :
               m.source_control_id = source.id /\ m.target_control_id = c.id}

\* session.add(Mapping(...)) without the test for an existing row
add_mapping_again(rows, s_id, t_id) ==
    rows \cup {[id |-> Cardinality(rows) + 1,
                source_control_id |-> s_id, target_control_id |-> t_id]}

\* the mapping (s_id, t_id) is added unless a row for the pair exists
add_mapping(rows, s_id, t_id) ==
    IF \E m \in rows : m.source_control_id = s_id /\ m.target_control_id = t_id
    THEN rows
    ELSE rows \cup {[id |-> Cardinality(rows) + 1,
                     source_control_id |-> s_id, target_control_id |-> t_id]}

\* the loop of import_data and of ingest_document over the mappings
RECURSIVE import_mappings(_, _, _, _, _)
import_mappings(d, maps, src, tgt, via) ==
    IF Len(maps) = 0 THEN d
    ELSE LET m == maps[1]
             s_found == control_row_id(d.controls, m.source, src)
             t_id == control_row_id(d.controls, m.target, tgt)
             create == s_found = NoId /\ m.source # <<>>
             d1 == IF create
                   THEN [d EXCEPT !.controls =
                            add_control(@, src, m.source, source_title(via, m.source))]
                   ELSE d
             s_id == IF create THEN Cardinality(d.controls) + 1 ELSE s_found
             d2 == IF s_id # NoId /\ t_id # NoId
                   THEN [d1 EXCEPT !.mappings = add_mapping(@, s_id, t_id)]
                   ELSE d1
         IN  import_mappings(d2, Tail(maps), src, tgt, via)

\* seed_iso_controls from row k of ISO_27001_CONTROLS on
RECURSIVE seed_iso_controls(_, _, _)
seed_iso_controls(tbl, fw_id, k) ==
    IF k > Len(ISO_27001_CONTROLS) THEN tbl
    ELSE seed_iso_controls(
             IF control_row_id(tbl, ISO_27001_CONTROLS[k].id, fw_id) = NoId
             THEN add_control(tbl, fw_id, ISO_27001_CONTROLS[k].id,
                              ISO_27001_CONTROLS[k].title)
             ELSE tbl,
             fw_id, k + 1)

\* the loop of main that gives every persisted clause control of the ISO
\* framework the title of the table
fix_clause_titles(tbl, fw_id) ==
    {IF c.framework_id = fw_id
        /\ \E k \in 1..Len(ISO_27001_CLAUSES) : ISO_27001_CLAUSES[k].id = c.control_id
     THEN [c EXCEPT !.title = clause_title(c.control_id)]
     ELSE c : c \in tbl}

\* the controls joined to the control source by a mapping in which it is
\* the source or the target, itself excluded
mapped_controls(d, source) ==
    {c \in d.controls :
        /\ c.id # source.id
        /\ \E m \in d.mappings :
               \/ m.source_control_id = source.id /\ m.target_control_id = c.id
               \/ m.target_control_id = source.id /\ m.source_control_id = c.id}

\* what a lookup returns of a control: its control_id, its title and the
\* short name of its framework
control_out(c) ==
    [control_id |-> c.control_id, title |-> c.title,
     framework_short_name |-> FRAMEWORKS[c.framework_id]]

\* the controls a lookup by control_id and framework_id selects
matching_controls(d, cid, fw) ==
    {c \in d.controls : c.control_id = cid /\ (fw # NoId => c.framework_id = fw)}

\* the source control of a lookup that found none (None)
NoControl == [id |-> NoId, framework_id |-> NoId, control_id |-> None, title |-> None]

\* the most persisted mappings
MaxMappings == 2

\* the identifiers of the lookups
ControlIds == {<<"A",".","5",".","1">>, <<"O","I","S","-","0","1">>}

\* the dicts of the parser that are imported: the control_id and title of
\* each control, the source and target of each mapping.  A mapping from a
\* clause and one without source; a mapping in the other direction; a
\* mapping of a control onto itself; a failed parse
ParseResults == {
    [success |-> TRUE,
     controls |-> <<[control_id |-> <<"O","I","S","-","0","1">>, title |-> <<"T">>]>>,
     mappings |-> <<[source |-> <<"4",".","1">>, target |-> <<"O","I","S","-","0","1">>],
                    [source |-> <<>>, target |-> <<"O","I","S","-","0","1">>]>>],
    [success |-> TRUE,
     controls |-> <<[control_id |-> <<"A",".","5",".","1">>, title |-> <<"C","o","n","t","r","o","l"," ","A",".","5",".","1">>]>>,
     mappings |-> <<[source |-> <<"O","I","S","-","0","1">>, target |-> <<"A",".","5",".","1">>]>>],
    [success |-> TRUE,
     controls |-> <<[control_id |-> <<"A",".","5",".","1">>, title |-> <<"C","o","n","t","r","o","l"," ","A",".","5",".","1">>]>>,
     mappings |-> <<[source |-> <<"A",".","5",".","1">>, target |-> <<"A",".","5",".","1">>]>>],
    [success |-> FALSE, controls |-> <<>>, mappings |-> <<>>]
}

\* source_framework_id and target_framework_id of the import requests: none
\* given, the ISO framework on both sides, a framework that does not exist
ImportFrameworkIds == {<<0, 0>>, <<1, 1>>, <<4, 1>>}

\* target_fw_id and iso_fw_id of the two calls of ingest_document in main
IngestFrameworkIds ==
    {<<framework_with_short_name(<<"B","S","I">>), framework_with_short_name(<<"I","S","O","2","7","0","0","1">>)>>,
     <<framework_with_short_name(<<"C","5">>), framework_with_short_name(<<"I","S","O","2","7","0","0","1">>)>>}

InitLookup ==
    /\ filename = <<>>
    /\ doc_type = <<"C","5">>
    /\ content = <<>>
    /\ pc = "db_idle"
    /\ strategy = None
    /\ result = Pending
    /\ controls = <<>> /\ mappings = <<>>
    /\ seen_bsi = {} /\ seen_mappings = {}
    /\ full_text = <<>> /\ lines = <<>> /\ sections = <<>> /\ idx = 0
    /\ current_clause = None /\ clause_buffer = <<>> /\ current_iso = None
    /\ target_sheets = <<>> /\ sheet_i = 0
    /\ df_columns = <<>> /\ df_rows = <<>> /\ col_map = NoRoles
    /\ iso_col = None /\ target_col = None
    /\ suspended = NoCall /\ alone = Pending
    /\ db = EmptyTables

\* the variables of a call of parse_uploaded_bytes, which no request on the
\* tables reaches
call_vars ==
    <<filename, doc_type, strategy, accs, pdf_locals, idx, table_locals,
      suspended, alone>>

\* import_data(body): the tables it leaves and the ImportResult it returns,
\* with the framework ids of the body or the doc_type dt
import_data(d, body, ids, dt) ==
    LET fws == import_frameworks(ids[1], ids[2], dt)
        d1 == import_controls(d, body.controls, fws.tgt)
        d2 == import_mappings(d1, body.mappings, fws.src, fws.tgt, "import_data")
    IN  IF fws.src = NoId \/ fws.tgt = NoId
        THEN [db |-> d,
              result |-> [success |-> FALSE,
                          error |-> <<"S","o","u","r","c","e"," ","o","r"," ","t","a","r","g","e","t"," ","f","r","a","m","e","w","o","r","k"," ","n","o","t"," ","f","o","u","n","d",".">>]]
        ELSE [db |-> d2,
              result |-> [success |-> TRUE,
                          controls_added |->
                              Cardinality(d1.controls) - Cardinality(d.controls),
                          mappings_added |->
                              Cardinality(d2.mappings) - Cardinality(d1.mappings)]]

\* ingest_document(session, parse_result, target_fw_id, iso_fw_id, source_doc):
\* the tables it leaves
ingest_document(d, parse_result, ids) ==
    IF ~parse_result.success THEN d
    ELSE import_mappings(import_controls(d, parse_result.controls, ids[1]),
                         parse_result.mappings, ids[2], ids[1], "ingest_document")

\* POST /api/import with the controls and mappings of a parse result
ImportData ==
    /\ pc \in {"db_idle", "db_imported"}
    /\ \E body \in ParseResults, ids \in ImportFrameworkIds :
          LET out == import_data(db, body, ids, doc_type)
          IN  /\ Cardinality(out.db.mappings) <= MaxMappings
              /\ content' = [kind |-> "import_data", body |-> body, ids |-> ids]
              /\ db' = out.db
              /\ result' = out.result
    /\ pc' = "db_imported"
    /\ UNCHANGED call_vars

\* the client sends the request of the last step a second time
ImportDataAgain ==
    /\ pc = "db_imported"
    /\ content.kind = "import_data"
    /\ LET out == import_data(db, content.body, content.ids, doc_type)
       IN  /\ db' = out.db
           /\ result' = out.result
    /\ content' = <<>>
    /\ pc' = "db_idle"
    /\ UNCHANGED call_vars

\* ingest_document on a parse result, as main calls it
IngestDocument ==
    /\ pc \in {"db_idle", "db_imported"}
    /\ \E parse_result \in ParseResults, ids \in IngestFrameworkIds :
          /\ Cardinality(ingest_document(db, parse_result, ids).mappings) <= MaxMappings
          /\ content' = [kind |-> "ingest_document", body |-> parse_result, ids |-> ids]
          /\ db' = ingest_document(db, parse_result, ids)
    /\ result' = Pending
    /\ pc' = "db_imported"
    /\ UNCHANGED call_vars

\* the document of the last step is ingested a second time
IngestDocumentAgain ==
    /\ pc = "db_imported"
    /\ content.kind = "ingest_document"
    /\ db' = ingest_document(db, content.body, content.ids)
    /\ content' = <<>>
    /\ result' = Pending
    /\ pc' = "db_idle"
    /\ UNCHANGED call_vars

\* main up to the ingestion: the Annex A controls are seeded and the clause
\* controls get the titles of the table
SeedIsoControls ==
    /\ pc = "db_idle"
    /\ LET fw_id == framework_with_short_name(<<"I","S","O","2","7","0","0","1">>)
       IN  db' = [db EXCEPT !.controls =
                     fix_clause_titles(seed_iso_controls(@, fw_id, 1), fw_id)]
    /\ content' = <<>>
    /\ result' = Pending
    /\ UNCHANGED <<pc, call_vars>>

\* GET /api/mappings/{control_id}: get_mappings
GetMappings ==
    /\ pc = "db_idle"
    /\ \E control_id \in ControlIds, framework_id \in 0..Len(FRAMEWORKS) :
          LET found == matching_controls(db, control_id, framework_id)
          IN  IF found = {}
              THEN result' = [status |-> 404]
              ELSE IF Cardinality(found) > 1
              THEN result' = [status |-> 500]
              ELSE LET source == CHOOSE c \in found : TRUE
                   IN  result' = [status |-> 200,
                                  source |-> source,
                                  mappings |-> {control_out(c) : c \in mapped_controls(db, source)}]
    /\ pc' = "db_answered"
    /\ UNCHANGED <<db, content, call_vars>>

\* get_mappings_for_control(control_id_str, source_framework_id): fetchone
\* takes one of the rows the query selects
GetMappingsForControl ==
    /\ pc = "db_idle"
    /\ \E control_id_str \in ControlIds, source_framework_id \in 0..Len(FRAMEWORKS) :
          LET found == matching_controls(db, control_id_str, source_framework_id)
          IN  IF found = {}
              THEN result' = [source_control |-> NoControl, mappings |-> {}]
              ELSE \E source \in found :
                      result' = [source_control |-> source,
                                 mappings |-> {control_out(c) : c \in mapped_controls(db, source)}]
    /\ pc' = "db_answered"
    /\ UNCHANGED <<db, content, call_vars>>

\* the controls of a framework
controls_of(d, fw) == {c \in d.controls : c.framework_id = fw}

\* the mapping rows the coverage query selects: one side among the source
\* controls and the other side among the target controls
coverage_pairs(d, src_ids, tgt_ids) ==
    {m \in d.mappings :
        \/ m.source_control_id \in src_ids /\ m.target_control_id \in tgt_ids
        \/ m.target_control_id \in src_ids /\ m.source_control_id \in tgt_ids}

\* the loop over the pairs: the side counted as the mapped source control
mapped_src(pairs, src_ids) ==
    {IF m.source_control_id \in src_ids THEN m.source_control_id
     ELSE m.target_control_id : m \in pairs}

\* the side counted as the mapped target control
mapped_tgt(pairs, src_ids) ==
    {IF m.source_control_id \in src_ids THEN m.target_control_id
     ELSE m.source_control_id : m \in pairs}

\* round((mapped / total * 100) if total else 0, 1), in tenths of a percent
\* (no quotient of the tables modelled lies halfway between two tenths)
coverage_percentage(mapped, total) ==
    IF total = 0 THEN 0 ELSE (2 * mapped * 1000 + total) \div (2 * total)

\* the fields of the coverage answer computed from the tables
coverage_out(d, source, target) ==
    LET src == controls_of(d, source)
        tgt == controls_of(d, target)
        src_ids == {c.id : c \in src}
        tgt_ids == {c.id : c \in tgt}
        pairs == coverage_pairs(d, src_ids, tgt_ids)
        total == Cardinality(src)
        mapped == Cardinality(mapped_src(pairs, src_ids))
    IN  [total_source_controls |-> total,
         mapped_controls |-> mapped,
         unmapped_controls |-> total - mapped,
         coverage_percentage |-> coverage_percentage(mapped, total),
         unmapped_control_ids |->
             {c.control_id : c \in {x \in src : x.id \notin mapped_src(pairs, src_ids)}},
         gap_controls |->
             {c.control_id : c \in {x \in tgt : x.id \notin mapped_tgt(pairs, src_ids)}}]

\* source and target of the coverage requests: the ISO framework against
\* itself, C5 against ISO and back, a framework that does not exist
CoverageRequests == {<<1, 1>>, <<3, 1>>, <<1, 3>>, <<4, 1>>}

\* GET /api/coverage: coverage_analysis(source, target)
CoverageAnalysis ==
    /\ pc = "db_idle"
    /\ \E source, target \in 1..(Len(FRAMEWORKS) + 1) :
          /\ <<source, target>> \in CoverageRequests
          /\ content' = [kind |-> "coverage", source |-> source, target |-> target]
          /\ IF framework_with_id(source) = NoId \/ framework_with_id(target) = NoId
             THEN result' = [status |-> 404]
             ELSE result' = [status |-> 200, coverage |-> coverage_out(db, source, target)]
    /\ pc' = "db_answered"
    /\ UNCHANGED <<db, filename, doc_type, strategy, accs, pdf_locals, idx, table_locals,
                   suspended, alone>>

\* get_coverage_analysis(source_framework_id, target_framework_id)
GetCoverageAnalysis ==
    /\ pc = "db_idle"
    /\ \E source_framework_id, target_framework_id \in 1..(Len(FRAMEWORKS) + 1) :
          /\ <<source_framework_id, target_framework_id>> \in CoverageRequests
          /\ content' = [kind |-> "coverage", source |-> source_framework_id,
                         target |-> target_framework_id]
          /\ result' = [coverage |-> coverage_out(db, source_framework_id,
                                                  target_framework_id)]
    /\ pc' = "db_answered"
    /\ UNCHANGED <<db, filename, doc_type, strategy, accs, pdf_locals, idx, table_locals,
                   suspended, alone>>

NextLookup ==
    \/ ImportData \/ ImportDataAgain
    \/ IngestDocument \/ IngestDocumentAgain
    \/ SeedIsoControls
    \/ GetMappings \/ GetMappingsForControl
    \/ CoverageAnalysis \/ GetCoverageAnalysis

SpecLookup == InitLookup /\ [][NextLookup]_vars

\* the control a lookup answered for, and the set it returned
answered_for ==
    IF "status" \in DOMAIN result THEN result.source ELSE result.source_control

lookup_answered ==
    /\ pc = "db_answered"
    /\ "mappings" \in DOMAIN result
    /\ IF "status" \in DOMAIN result THEN result.status = 200
       ELSE result.source_control.id # NoId

\* a mapping (x, y) is persisted
persisted(x, y) ==
    \E m \in db.mappings : m.source_control_id = x.id /\ m.target_control_id = y.id

\* C20: mapping lookup is bidirectional and irreflexive.  In any persisted
\* state the set of controls returned for a control X is the set of the
\* controls Y other than X with a persisted mapping (X, Y) or (Y, X), so
\* that Y is returned for X if and only if X is returned for Y.
C20_LookupIsBidirectional ==
    /\ lookup_answered =>
          result.mappings
              = {control_out(y) : y \in {c \in db.controls :
                                            /\ c # answered_for
                                            /\ \/ persisted(answered_for, c)
                                               \/ persisted(c, answered_for)}}
    /\ \A x, y \in db.controls :
          y \in mapped_controls(db, x) <=> x \in mapped_controls(db, y)

\* a lookup for the target of a mapping returns its source, while a mapping
\* of the control onto itself is persisted too
C20_Witness ==
    /\ lookup_answered
    /\ persisted(answered_for, answered_for)
    /\ \E y \in db.controls :
          /\ y # answered_for
          /\ persisted(y, answered_for)
          /\ ~persisted(answered_for, y)
          /\ control_out(y) \in result.mappings

\* ------------------------------------------------------------------------
\* Properties of the coverage analysis
\* ------------------------------------------------------------------------

\* a coverage request has been answered with the analysis
coverage_answered == pc = "db_answered" /\ "coverage" \in DOMAIN result

\* the control c has a mapping, in either direction, to a control of tgt
mapped_to_some(c, tgt) == \E t \in tgt : persisted(c, t) \/ persisted(t, c)

\* C21: coverage analysis invariant.  For any persisted state and any pair
\* of source and target framework, total_source_controls is the number of
\* controls of the source framework, mapped_controls + unmapped_controls is
\* that total, unmapped_control_ids lists exactly the source controls with
\* no mapping in either direction to a control of the target framework, and
\* coverage_percentage is 0 when the total is 0.
C21_CoverageInvariant ==
    coverage_answered =>
        LET src == controls_of(db, content.source)
            tgt == controls_of(db, content.target)
            cov == result.coverage
        IN  /\ cov.total_source_controls = Cardinality(src)
            /\ cov.mapped_controls + cov.unmapped_controls = cov.total_source_controls
            /\ cov.unmapped_control_ids
                   = {c.control_id : c \in {x \in src : ~mapped_to_some(x, tgt)}}
            /\ cov.total_source_controls = 0 => cov.coverage_percentage = 0

\* ------------------------------------------------------------------------
\* Properties of the import
\* ------------------------------------------------------------------------

\* no two persisted controls share (framework_id, control_id) and no two
\* persisted mappings share (source control, target control)
unique_rows ==
    /\ \A c1, c2 \in db.controls :
          c1.framework_id = c2.framework_id /\ c1.control_id = c2.control_id => c1 = c2
    /\ \A m1, m2 \in db.mappings :
          m1.source_control_id = m2.source_control_id
              /\ m1.target_control_id = m2.target_control_id => m1 = m2

\* the step is the second import of the request of the step before
second_import == pc = "db_imported" /\ pc' = "db_idle"

\* the step is the import of a parse result with success = false
failed_import ==
    /\ pc' = "db_imported"
    /\ "body" \in DOMAIN content'
    /\ ~content'.body.success

\* C23: the import step is idempotent.  A persisted control is created only
\* for an unseen (framework, control_id) and a persisted mapping only for an
\* unseen (source control, target control), so importing the same parse
\* result a second time adds zero controls and zero mappings and leaves the
\* persisted state unchanged, and a parse result with success = false
\* changes nothing.
C23_ImportIsIdempotent ==
    /\ []unique_rows
    /\ [][/\ second_import =>
                /\ db' = db
                /\ "controls_added" \in DOMAIN result' =>
                       result'.controls_added = 0 /\ result'.mappings_added = 0
          /\ failed_import => db' = db]_vars

\* a second import was answered with zero additions while the tables hold
\* the controls and the mapping of the first, one control created as the
\* unseen source of the mapping
C23_Witness ==
    /\ pc = "db_idle"
    /\ "controls_added" \in DOMAIN result
    /\ result.controls_added = 0 /\ result.mappings_added = 0
    /\ \E x, y \in db.controls :
          /\ x.control_id = <<"4",".","1">> /\ x.title = <<"4",".","1">>
          /\ y.control_id = <<"O","I","S","-","0","1">>
          /\ persisted(x, y)

\* the control is a clause control of the ISO framework listed in
\* ISO_27001_CLAUSES
listed_clause(c) ==
    /\ c.framework_id = framework_with_short_name(<<"I","S","O","2","7","0","0","1">>)
    /\ \E k \in 1..Len(ISO_27001_CLAUSES) : ISO_27001_CLAUSES[k].id = c.control_id

\* C24: every persisted ISO clause control whose id is listed in the
\* clause-title table carries the title of the table and never a placeholder
\* (such as "ISO 4.1" or the bare id), whichever import path created it as
\* the unseen source of a mapping.
C24_ClauseTitlesAreReal ==
    \A c \in db.controls : listed_clause(c) => c.title = clause_title(c.control_id)

\* ------------------------------------------------------------------------
\* The search of controls
\* ------------------------------------------------------------------------

\* the characters of the identifiers and queries, in the order of their codes
CODE_ORDER == <<" ", "%", "-", ".">> \o DigitSeq \o UpperSeq \o <<"_">> \o LowerSeq

code(c) == CHOOSE k \in 1..Len(CODE_ORDER) : CODE_ORDER[k] = c

\* a < b for two strings, as ORDER BY compares them
RECURSIVE str_lt(_, _)
str_lt(a, b) ==
    IF b = <<>> THEN FALSE
    ELSE IF a = <<>> THEN TRUE
    ELSE IF a[1] = b[1] THEN str_lt(Tail(a), Tail(b))
    ELSE code(a[1]) < code(b[1])

\* text LIKE pattern: % stands for any run of characters, _ for one
RECURSIVE like(_, _)
like(text, pattern) ==
    IF pattern = <<>> THEN text = <<>>
    ELSE IF pattern[1] = "%"
    THEN like(text, Tail(pattern)) \/ (text # <<>> /\ like(Tail(text), pattern))
    ELSE /\ text # <<>>
         /\ pattern[1] = "_" \/ pattern[1] = text[1]
         /\ like(Tail(text), Tail(pattern))

\* column.ilike(pattern): the comparison ignores the case of the letters
ilike(text, pattern) == like(lower(text), lower(pattern))

\* stmt.limit(100)
SEARCH_LIMIT == 100

\* the order of the rows by control_id alone
by_control_id_only(c, q) == 1

\* case((func.lower(Control.control_id) == q.lower(), 0), else_=1)
exact_first(c, q) == IF lower(c.control_id) = lower(q) THEN 0 ELSE 1

\* c comes before d under order_by(exact_first, Control.control_id) when q
\* is given and under order_by(Control.control_id) otherwise; rows the
\* ORDER BY does not tell apart come in the order the engine takes, by
\* ascending or by descending id
sorts_before(c, d, q, ties) ==
    LET ec == IF q # <<>> THEN exact_first(c, q) ELSE 1
        ed == IF q # <<>> THEN exact_first(d, q) ELSE 1
    IN  IF ec # ed THEN ec < ed
        ELSE IF c.control_id # d.control_id THEN str_lt(c.control_id, d.control_id)
        ELSE IF ties = "asc" THEN c.id < d.id ELSE c.id > d.id

\* the rows in the order of the statement: each row at the place after the
\* rows that come before it
order_by(rows, q, ties) ==
    LET placed == {<<Cardinality({d \in rows : sorts_before(d, c, q, ties)}) + 1, c>> :
                      c \in rows}
    IN  [k \in 1..Cardinality(rows) |-> (CHOOSE p \in placed : p[1] = k)[2]]

limit(seq, n) == SubSeq(seq, 1, Min(Len(seq), n))

\* the controls the framework_id of a search keeps
in_framework(d, framework_id) ==
    {c \in d.controls : framework_id # NoId => c.framework_id = framework_id}

\* search_controls(q, framework_id): the rows returned.  The description of
\* a control is empty in every table and left out
search_controls(d, q, framework_id, ties) ==
    LET pattern == <<"%">> \o q \o <<"%">>
        rows == IF q # <<>>
                THEN {c \in in_framework(d, framework_id) :
                         ilike(c.control_id, pattern) \/ ilike(c.title, pattern)}
                ELSE in_framework(d, framework_id)
    IN  limit(order_by(rows, q, ties), SEARCH_LIMIT)

\* a control row of the tables searched
Row(id, fw, cid, title) ==
    [id |-> id, framework_id |-> fw, control_id |-> cid, title |-> title]

\* the tables searched: no control; controls of which one is named by the
\* title of another; one control_id in two frameworks and in another case;
\* an identifier with the character _; more controls containing the
\* identifier A.5.1 and sorting before it than a search returns
SearchTables == {
    {},
    {Row(1, 1, <<"A",".","5",".","1">>, <<"P","o","l","i","c","i","e","s">>), Row(2, 1, <<"A",".","5",".","1","0">>, <<"R","e","t","u","r","n"," ","o","f"," ","a","s","s","e","t","s">>),
     Row(3, 3, <<"O","I","S","-","0","1">>, <<"s","e","e"," ","A",".","5",".","1">>), Row(4, 2, <<"1","A",".","5",".","1">>, <<>>)},
    {Row(1, 1, <<"A",".","5",".","1">>, <<"P","o","l","i","c","i","e","s">>), Row(2, 3, <<"A",".","5",".","1">>, <<"P","o","l","i","c","i","e","s">>),
     Row(3, 2, <<"a",".","5",".","1">>, <<>>), Row(4, 1, <<"4",".","1">>, <<"a",".","5",".","1">>)},
    {Row(1, 1, <<"A","_","5",".","1">>, <<>>), Row(2, 1, <<"A",".","5",".","1">>, <<>>), Row(3, 1, <<"0","A","_","5",".","1">>, <<>>)},
    {Row(k, 1, int_str(k) \o <<"A",".","5",".","1">>, <<>>) : k \in 1..SEARCH_LIMIT}
        \cup {Row(SEARCH_LIMIT + 1, 1, <<"A",".","5",".","1">>, <<"P","o","l","i","c","i","e","s">>)}
}

\* the queries
Queries == {<<>>, <<"A",".","5",".","1">>, <<"a",".","5",".","1">>, <<"A","_","5",".","1">>, <<"5",".","1">>, <<"O","I","S">>}

InitSearch ==
    /\ filename = <<>>
    /\ doc_type = <<>>
    /\ content = <<>>
    /\ pc = "db_idle"
    /\ strategy = None
    /\ result = Pending
    /\ controls = <<>> /\ mappings = <<>>
    /\ seen_bsi = {} /\ seen_mappings = {}
    /\ full_text = <<>> /\ lines = <<>> /\ sections = <<>> /\ idx = 0
    /\ current_clause = None /\ clause_buffer = <<>> /\ current_iso = None
    /\ target_sheets = <<>> /\ sheet_i = 0
    /\ df_columns = <<>> /\ df_rows = <<>> /\ col_map = NoRoles
    /\ iso_col = None /\ target_col = None
    /\ suspended = NoCall /\ alone = Pending
    /\ \E tbl \in SearchTables : db = [controls |-> tbl, mappings |-> {}]

\* GET /api/controls: search_controls
SearchControls ==
    /\ pc = "db_idle"
    /\ \E q \in Queries, framework_id \in 0..Len(FRAMEWORKS), ties \in {"asc", "desc"} :
          /\ content' = [kind |-> "search", q |-> q, framework_id |-> framework_id]
          /\ result' = [controls |-> search_controls(db, q, framework_id, ties)]
    /\ pc' = "db_answered"
    /\ UNCHANGED <<db, call_vars>>

NextSearch == SearchControls

SpecSearch == InitSearch /\ [][NextSearch]_vars

\* a search with a query has been answered
search_answered ==
    /\ pc = "db_answered"
    /\ "q" \in DOMAIN content
    /\ content.q # <<>>

\* the control_id of the control equals the query but for the case
equals_query(c) == lower(c.control_id) = lower(content.q)

\* C22: a control search with a non-empty query q returns every control
\* whose control_id equals q, the case of the letters ignored, before any
\* control that merely contains q, so when such an exact match exists it is
\* the first result, also after the limit of 100 results is applied.
C22_ExactMatchFirst ==
    search_answered =>
        LET r == result.controls
            scope == in_framework(db, content.framework_id)
        IN  /\ \A c \in scope : equals_query(c) => \E i \in 1..Len(r) : r[i] = c
            /\ \A i, j \in 1..Len(r) :
                  equals_query(r[j]) /\ ~equals_query(r[i]) => j < i
            /\ (\E c \in scope : equals_query(c)) => Len(r) > 0 /\ equals_query(r[1])

\* the limit cut the result, whose first control is the exact match although
\* its control_id sorts after that of the controls that follow
C22_Witness ==
    /\ search_answered
    /\ Cardinality(db.controls) > SEARCH_LIMIT
    /\ Len(result.controls) = SEARCH_LIMIT
    /\ equals_query(result.controls[1])
    /\ result.controls[1].control_id # content.q
    /\ \A i \in 2..Len(result.controls) :
          str_lt(result.controls[i].control_id, result.controls[1].control_id)

\* ------------------------------------------------------------------------
\* Properties of the end of the clause pass
\* ------------------------------------------------------------------------

\* line k begins with an Annex marker A.<major>.<minor>
begins_with_annex_marker(k) == AnnexEnd(stripped_line(k), 1) # 0

\* the first line that begins with an Annex marker, or the position after
\* the last line
first_annex_line ==
    LET ms == {k \in 1..Len(lines) : begins_with_annex_marker(k)}
    IN  IF ms = {} THEN Len(lines) + 1 ELSE Least(ms)

\* the source of the mapping is a clause number
clause_sourced(m) == Len(m.source) > 0 /\ m.source[1] \in Digit

\* C25: the PDF clause pass ends exactly at the first line that begins with
\* an Annex marker A.<major>.<minor>.  Every clause line before it is
\* scanned, so each standard a sub-clause header line names is mapped from
\* its clause, also after a line that merely begins with "A."; no line after
\* it contributes a mapping whose source is a clause.
C25_ClausePassEndsAtAnnexMarker ==
    SucceededWith(<<"p","d","f">>) =>
        /\ \A i \in 1..(first_annex_line - 1) :
              is_sub_clause_header(i) =>
                  \A id \in mentions(stripped_line(i)) :
                      Elem([source |-> clause_number(i), target |-> id],
                           result.mappings)
        /\ \A k \in 1..Len(result.mappings) :
              clause_sourced(result.mappings[k]) =>
                  \E i \in 1..(first_annex_line - 1) :
                      /\ is_sub_clause_header(i)
                      /\ clause_number(i) = result.mappings[k].source

\* ------------------------------------------------------------------------
\* Properties of the top-level clause headers
\* ------------------------------------------------------------------------

\* the greatest element of a non-empty set of numbers
Greatest(S) == CHOOSE x \in S : \A y \in S : y <= x

\* line k is the header of a top-level clause: its number has no dot
is_top_level_header(k) == is_clause_header(k) /\ ~is_sub_clause_header(k)

\* the sub-clause headers scanned before line i
sub_clause_headers_before(i) ==
    {k \in 1..(Min(i, clause_pass_end) - 1) : is_sub_clause_header(k)}

\* the lines the clause pass scans from line i on, joined as a block
clause_text_from(i) ==
    join(<<" ">>, [k \in 1..(clause_pass_end - i) |-> stripped_line(i + k - 1)])

\* the first sub-clause header the pass scans, or the line it ends at
first_sub_clause_header ==
    IF sub_clause_headers_before(clause_pass_end) = {} THEN clause_pass_end
    ELSE Least(sub_clause_headers_before(clause_pass_end))

\* C26: in the PDF clause pass a top-level clause header (a number without
\* a dot) flushes the buffer but leaves the current-clause cursor unchanged.
\* No mapping has a dotless clause number as source, the standards named in
\* the lines before the first sub-clause header yield no mapping, and the
\* standards named in a top-level header line and in the lines following it
\* are mapped from the preceding sub-clause.
C26_TopLevelHeaderKeepsCursor ==
    SucceededWith(<<"p","d","f">>) =>
        /\ \A k \in 1..Len(result.mappings) :
              clause_sourced(result.mappings[k]) =>
                  /\ Elem(".", result.mappings[k].source)
                  /\ result.mappings[k].target
                         \in mentions(clause_text_from(first_sub_clause_header))
        /\ \A i \in 1..(clause_pass_end - 1) :
              is_top_level_header(i) /\ sub_clause_headers_before(i) # {} =>
                  \A j \in i..(next_header(i) - 1) :
                      \A id \in mentions(stripped_line(j)) :
                          Elem([source |-> clause_number(Greatest(sub_clause_headers_before(i))),
                                target |-> id],
                               result.mappings)

\* a top-level header follows a sub-clause header and names a standard that
\* no line of the sub-clause names; the standard is mapped from the
\* sub-clause
C26_Witness ==
    /\ SucceededWith(<<"p","d","f">>)
    /\ \E i \in 1..(clause_pass_end - 1) :
          /\ is_top_level_header(i)
          /\ sub_clause_headers_before(i) # {}
          /\ \E id \in mentions(stripped_line(i)) :
                /\ \A j \in 1..(i - 1) : id \notin mentions(stripped_line(j))
                /\ Elem([source |-> clause_number(Greatest(sub_clause_headers_before(i))),
                         target |-> id],
                        result.mappings)

\* ------------------------------------------------------------------------
\* The renaming of the repeated column names on its own
\* ------------------------------------------------------------------------

\* the cells of a header row: a name, the name with a blank before it, the
\* name as its first repetition is renamed, another name, an empty cell
HeaderCells == {<<"R","e","f">>, <<" ","R","e","f">>, <<"R","e","f","_","1">>, <<"I","S","O">>, NaN}

\* the header rows: up to MaxCols cells
HeaderRows == SeqsUpTo(HeaderCells, MaxCols)

InitDedup ==
    /\ filename = <<>>
    /\ doc_type \in DocTypes
    /\ content \in {[kind |-> "header", cells |-> row] : row \in HeaderRows}
    /\ pc = "dedup_call"
    /\ strategy = None
    /\ result = Pending
    /\ controls = <<>> /\ mappings = <<>>
    /\ seen_bsi = {} /\ seen_mappings = {}
    /\ full_text = <<>> /\ lines = <<>> /\ sections = <<>> /\ idx = 0
    /\ current_clause = None /\ clause_buffer = <<>> /\ current_iso = None
    /\ target_sheets = <<>> /\ sheet_i = 0
    /\ df_columns = <<>> /\ df_rows = <<>> /\ col_map = NoRoles
    /\ iso_col = None /\ target_col = None
    /\ suspended = NoCall /\ alone = Pending
    /\ db = EmptyTables

\* pd.read_excel(..., header=header_row) names the columns of the header
\* row and the loop of parse_excel renames them
DedupColumns ==
    /\ pc = "dedup_call"
    /\ df_columns' = dedup_columns(pandas_columns(content.cells))
    /\ pc' = "dedup_done"
    /\ UNCHANGED <<inputs, other_calls, strategy, result, accs, pdf_locals, idx,
                   df_rows, col_map, iso_col, target_col, target_sheets, sheet_i>>

NextDedup == DedupColumns

SpecDedup == InitDedup /\ [][NextDedup]_vars

\* C27: the renaming of the spreadsheet column names yields pairwise
\* distinct column keys for every sequence of raw header names: the k-th
\* repetition of a raw name N is renamed N_k and never collides with the key
\* of another column, a raw column already named N_k included.
C27_DedupKeysAreDistinct ==
    pc = "dedup_done" =>
        \A i, j \in 1..Len(df_columns) : df_columns[i] = df_columns[j] => i = j

\* ------------------------------------------------------------------------
\* Properties of the category of a spreadsheet control
\* ------------------------------------------------------------------------

\* the letters before the dash of a reference of the criteria style
\* <2-4 letters>-<2 digits>, and the leading run of capital letters of any
\* other reference
letter_prefix(ref_val) ==
    IF C5_REF_PATTERN(ref_val) # 0
    THEN SubSeq(ref_val, 1, C5_REF_PATTERN(ref_val) - 1)
    ELSE leading_letters(ref_val)

\* C28: the category of a spreadsheet control is the criteria-style letter
\* prefix when its reference value matches the criteria-style pattern
\* (<2-4 letters>-<2 digits>) and otherwise the leading run of uppercase
\* letters of the reference value, for every doc_type label; a reference
\* such as "ISMS.1" gets the category "ISMS" also when doc_type contains
\* "C5".
C28_CategoryIsLetterPrefix ==
    SucceededWith(<<"e","x","c","e","l">>) =>
        \A k \in 1..Len(result.controls) :
            result.controls[k].category = letter_prefix(result.controls[k].control_id)

\* ------------------------------------------------------------------------
\* Properties of the attribution of requirement identifiers
\* ------------------------------------------------------------------------

\* the identifier is a requirement identifier
is_requirement_id(t) == BSI_REQ_PATTERN(t, 1) = Len(t) + 1

\* the positions of the text at which the requirement identifier r occurs
occurrences(r) ==
    {p \in 1..Len(full_text) :
        /\ BSI_REQ_PATTERN(full_text, p) # 0
        /\ SubSeq(full_text, p, BSI_REQ_PATTERN(full_text, p) - 1) = r}

\* the positions before p at which an Annex marker stands
markers_before(p) == {i \in 1..(p - 1) : AnnexEnd(full_text, i) # 0}

\* the Annex identifier of the marker at position i
marker_at(i) == SubSeq(full_text, i, AnnexEnd(full_text, i) - 1)

\* C29: in a PDF result every mapping whose target is a requirement
\* identifier r has as source the Annex identifier of the nearest Annex
\* marker preceding some occurrence of r in the text, no other Annex marker
\* standing between that marker and r; neither the section pass nor the line
\* fallback attributes r to an earlier, superseded Annex control.
C29_NearestAnnexMarker ==
    SucceededWith(<<"p","d","f">>) =>
        \A k \in 1..Len(result.mappings) :
            is_requirement_id(result.mappings[k].target) =>
                \E p \in occurrences(result.mappings[k].target) :
                    /\ markers_before(p) # {}
                    /\ marker_at(Greatest(markers_before(p))) = result.mappings[k].source

\* ------------------------------------------------------------------------
\* Properties of the sheets with few rows
\* ------------------------------------------------------------------------

\* the column names of a sheet with a header row, and the roles inferred
sheet_columns(sheet) ==
    dedup_columns(pandas_columns(sheet.rows[find_header_row(sheet.rows) + 1]))

sheet_roles(sheet) == detect_columns(sheet_columns(sheet))

\* the sheet has a header row scoring at least MIN_HEADER_SCORE within its
\* first MAX_HEADER_ROWS rows, and its roles are resolved
has_header_and_roles(sheet) ==
    /\ sheet.readable
    /\ find_header_row(sheet.rows) # NoRow
    /\ sheet_roles(sheet) # NoRoles

\* the reference values of the data rows below the header that are neither
\* empty nor "nan"
sheet_references(sheet) ==
    {ref \in {safe_str(sheet_columns(sheet), sheet.rows[j], sheet_roles(sheet).ref) :
                 j \in (find_header_row(sheet.rows) + 2)..Len(sheet.rows)} :
        ref # <<>> /\ ref # <<"n","a","n">>}

\* C30: every selected sheet that has a header row scoring at least 2 within
\* its first 5 rows and resolvable reference and cross-reference roles
\* contributes a control for each data row below the header whose reference
\* value is non-empty and not "nan", however few rows the sheet has, a sheet
\* of the header row and a single data row included.
C30_FewRowsStillContribute ==
    SucceededWith(<<"e","x","c","e","l">>) /\ content.kind = "xlsx" =>
        \A k \in 1..Len(target_sheets) :
            has_header_and_roles(content.sheets[target_sheets[k]]) =>
                \A ref \in sheet_references(content.sheets[target_sheets[k]]) :
                    has_control(result.controls, ref)

====
